---- MODULE Spec2Model ----
(***************************************************************************)
(* Single-instance launch coordination of weblet (native webview mode).    *)
(*                                                                         *)
(* Processes: launchers are foreground `weblet <name>` invocations running *)
(* WebletManager.Run without WEBLET_BACKGROUND; the worker of launcher l   *)
(* is the background process l spawns (the same binary re-executed with    *)
(* WEBLET_BACKGROUND=1), which runs WebletManager.Run and view.RunWebview. *)
(* Shared state: the lock file locks/<name>.lock, the socket path          *)
(* sockets/<name>.sock, and the window manager's set of windows.           *)
(* All launchers here run the same name, configured with UseChrome=false.  *)
(***************************************************************************)
EXTENDS Naturals, FiniteSets, Sequences

\* ------------------------------------------------------------- bounds
NumLaunchers == 2     \* concurrent foreground invocations of the same name
AgeCap == 3           \* lock ages are tracked up to AgeCap ticks
MaxWindows == 2       \* windows in the window manager's listing

\* ------------------------------------------------- program constants
WaitRounds == 20      \* for i := 0; i < 20; i++
StaleSeconds == 10    \* time.Since(info.ModTime()) > 10*time.Second

\* ------------------------------------------------------------- clock
TickSeconds == 5      \* seconds per tick of the modelled clock

Launchers == 1 .. NumLaunchers
NumClients == 3       \* later invocations whose worker dials the socket
Clients == 1 .. NumClients
Orphan == 0           \* creator of a lock file left behind by an earlier run

VARIABLES
  pc,          \* launcher l's position in the non-background Run
  i,           \* launcher l's wait-loop counter
  depth,       \* how often launcher l re-entered Run after a stale reclaim
  outcome,     \* what launcher l's invocation returned
  lost,        \* launcher l had an exclusive create fail in this invocation
  won,         \* launcher l's latest exclusive create succeeded
  raced,       \* launchers invoked while a worker held the lease, windowless
  lockExists,  \* locks/<name>.lock exists
  lockAge,     \* its age (now - ModTime) in ticks, capped at AgeCap
  holders,     \* creators of the marker that exists now
  wpc,         \* position of the worker spawned by launcher l
  wprobe,      \* result of that worker's latest isWebletWindowOpen
  sig,         \* that worker's signal goroutine: armed, pending or spent;
               \* killed: a signal ended the worker before signal.Notify
  windows,     \* workers whose window is currently open
  created,     \* workers that ever created a window
  unlocked,    \* workers that ran the deferred os.Remove(lockFile)
  sockFile,    \* worker whose listener is bound at the socket path (0: no file)
  listener,    \* workers holding an open listener
  wmctrl,      \* the wmctrl tool is installed
  orphan0,     \* an orphaned lock file existed when the run began
  wins,        \* the window manager's listing, in the order wmctrl prints it
  cfg,         \* the name's entry in weblets.json: absent, native or chrome
  chromeProcs, \* live Chrome processes running with the name's user-data-dir
  path,        \* the branch of Run on which launcher l found an instance
  seen,        \* what launcher l's window probes have returned so far
  picked,      \* index in wins of the window launcher l selected (0: none)
  tried,       \* the activation mechanisms launcher l has run, in order
  inbox,       \* connections waiting in the listener's backlog, oldest first
  req,         \* what became of client c's connection to the socket
  focus_requested, \* the view's static int focus_requested
  timer,       \* position of the GTK timer callback on_focus_check
  focused,     \* how often weblet_focus has presented the window
  nameOf,      \* the name launcher p was invoked with (two-name model)
  disk,        \* lock files by path: who created it, and whether it is stale
  socks,       \* socket endpoints by path: whose listener is bound there
  fpc,         \* launcher p's (then its worker's) position in the two-name model
  store,       \* weblets.json: the set of entries in the file
  argv,        \* the arguments after the program name of launcher l's command
  weblets      \* wm.weblets of process p: the map it loaded when it started

vars == << pc, i, depth, outcome, lost, won, raced, lockExists, lockAge, holders, wpc,
           wprobe, sig, windows, created, unlocked, sockFile, listener,
           wmctrl, orphan0, wins, cfg, chromeProcs, path, seen, picked, tried,
           inbox, req, focus_requested, timer, focused, nameOf, disk, socks, fpc,
           store, argv, weblets >>

launcherVars == << pc, i, depth, outcome, lost, won, raced >>
lockVars == << lockExists, lockAge, holders >>
workerVars == << wpc, wprobe, sig, windows, created, unlocked >>
sockVars == << sockFile, listener >>
deskVars == << wins, cfg, chromeProcs, path, seen, picked, tried >>
ipcVars == << inbox, req, focus_requested, timer, focused >>
pathVars == << nameOf, disk, socks, fpc >>
cfgVars == << store, argv, weblets >>
extVars == << ipcVars, pathVars, cfgVars >>
envVars == << wmctrl, orphan0, deskVars, extVars >>

\* ------------------------------------------------------------ helpers

\* isWebletWindowOpen(name): wmctrl lists a window whose class or title
\* matches; without wmctrl both listings fail and the result is false.
isWebletWindowOpen == wmctrl /\ windows # {}

\* time.Since(info.ModTime()) > 10*time.Second, for an age in ticks.
IsStale_AtThreshold(age) == age * TickSeconds >= StaleSeconds

\* The same comparison against 10*time.Minute.
IsStale_Minutes(age) == age * TickSeconds > StaleSeconds * 60

IsStale(age) == age * TickSeconds > StaleSeconds

\* os.Remove(lockFile): whatever marker is at the path is gone.
RemoveLock ==
  /\ lockExists' = FALSE
  /\ lockAge' = 0
  /\ holders' = {}

\* A worker is running whose launcher's marker is in place and which has
\* not created its window (yet).
LeaseHeldWindowless ==
  \E w \in Launchers :
    wpc[w] \notin {"none", "exited"} /\ w \in holders /\ w \notin created

\* ------------------------------------------------- window matching

\* Strings are sequences of characters. "n" stands for the weblet's name,
\* "d" for the second-level domain label of its URL, "w" for the literal
\* prefix "weblet-", "x" for any other text; capitals are their upper case.
Name == << "n" >>
Domain == << "d" >>

\* strings.ToLower
Lower(c) == IF c = "N" THEN "n" ELSE IF c = "W" THEN "w" ELSE IF c = "D" THEN "d" ELSE c

ToLower(str) == [k \in 1 .. Len(str) |-> Lower(str[k])]

\* strings.HasPrefix, strings.HasSuffix, strings.Contains
HasPrefix(str, pre) == Len(pre) <= Len(str) /\ SubSeq(str, 1, Len(pre)) = pre

HasSuffix(str, suf) ==
  Len(suf) <= Len(str) /\ SubSeq(str, Len(str) - Len(suf) + 1, Len(str)) = suf

Contains(str, sub) ==
  Len(sub) <= Len(str) /\
    \E k \in 0 .. (Len(str) - Len(sub)) : SubSeq(str, k + 1, k + Len(sub)) = sub

\* targetClass := strings.ToLower("weblet-" + name)
targetClass == ToLower(<< "w" >> \o Name)

\* possibleTitles: the lower-cased name and the second-level domain label.
possibleTitles == { ToLower(Name), ToLower(Domain) }

\* The way a WM_CLASS matches, by the first disjunct of the test that holds.
ClassKind(class) ==
  LET wmClass == ToLower(class) IN
    IF wmClass = targetClass THEN "exact"
    ELSE IF HasPrefix(wmClass, targetClass \o << "." >>) THEN "prefix"
    ELSE IF HasSuffix(wmClass, << "." >> \o targetClass) THEN "suffix"
    ELSE IF Contains(wmClass, targetClass) THEN "substring"
    ELSE "none"

\* The class test of isWebletWindowOpen and focusWindowByTitle.
ClassMatch(win) ==
  LET wmClass == ToLower(win.class) IN
    \/ wmClass = targetClass
    \/ HasPrefix(wmClass, targetClass \o << "." >>)
    \/ HasSuffix(wmClass, << "." >> \o targetClass)
    \/ Contains(wmClass, targetClass)

\* Their title test: the title is the name, or starts with the name and a space.
TitleMatch(win) ==
  LET t == ToLower(win.title) IN
    t = ToLower(Name) \/ HasPrefix(t, ToLower(Name) \o << " " >>)

\* The title test of isChromeWebletWindowOpen and focusChromeWindow.
ChromeTitleMatch(win) ==
  \E title \in possibleTitles : Contains(ToLower(win.title), title)

\* The lines of a listing that pass each test.
ClassHits(list) == { k \in 1 .. Len(list) : ClassMatch(list[k]) }

TitleHits(list) == { k \in 1 .. Len(list) : TitleMatch(list[k]) }

ChromeTitleHits(list) == { k \in 1 .. Len(list) : ChromeTitleMatch(list[k]) }

\* The loop over the lines returns at the first one that passes (0: none).
FirstMatch(hits) ==
  IF hits = {} THEN 0 ELSE CHOOSE k \in hits : \A j \in hits : k <= j

\* isWebletWindowOpen(name) over the listed windows: the class pass of
\* wmctrl -lx, then the title pass of wmctrl -l; false when wmctrl fails.
WindowListed(list) ==
  wmctrl /\ (FirstMatch(ClassHits(list)) # 0 \/ FirstMatch(TitleHits(list)) # 0)

\* isChromeWebletWindowOpen(name, url) over the listed windows.
ChromeWindowListed(list) == wmctrl /\ FirstMatch(ChromeTitleHits(list)) # 0

\* The window focusWindowByTitle hands to focusWindowByID: the first line
\* of the class pass that matches, else the first of the title pass.
SelectByTitle(list) ==
  IF FirstMatch(ClassHits(list)) # 0
    THEN FirstMatch(ClassHits(list))
    ELSE FirstMatch(TitleHits(list))

\* The window focusChromeWindow hands to focusWindowByID.
SelectChrome(list) == FirstMatch(ChromeTitleHits(list))

\* WM_CLASS and title values the listed windows are drawn from.
ClassSamples ==
  { << "W", "N" >>, << "w", "n", ".", "x" >>, << "x", ".", "w", "n" >>,
    << "x", "w", "n", "x" >>, << "x" >> }

TitleSamples ==
  { << "N" >>, << "n", " ", "x" >>, << "x", " ", "n" >>, << "x", " ", "D" >>, << "x" >> }

WindowSamples == [class : ClassSamples, title : TitleSamples]

\* Every listing of at most n windows.
Listings(n) == UNION { [1 .. k -> WindowSamples] : k \in 0 .. n }

\* The lease model: the only windows are the workers' own, kept in `windows`;
\* the name is configured for the native webview, no Chrome process runs.
DeskQuiet ==
  /\ wins = << >>
  /\ cfg = "native"
  /\ chromeProcs = 0
  /\ path = [l \in Launchers |-> "none"]
  /\ seen = [l \in Launchers |-> {}]
  /\ picked = [l \in Launchers |-> 0]
  /\ tried = [l \in Launchers |-> << >>]

\* ------------------------------------------------ configuration store

\* A second configured name, and the URLs given on the command line.
Other == << "m" >>
CfgNames == { Name, Other }
Urls == { "u1", "u2" }

\* json.MarshalIndent of one Weblet: pid and use_chrome are omitempty.
Encode(w) ==
  IF w.pid # 0 /\ w.useChrome
    THEN [name |-> w.name, url |-> w.url, pid |-> w.pid, use_chrome |-> TRUE]
  ELSE IF w.pid # 0
    THEN [name |-> w.name, url |-> w.url, pid |-> w.pid]
  ELSE IF w.useChrome
    THEN [name |-> w.name, url |-> w.url, use_chrome |-> TRUE]
  ELSE [name |-> w.name, url |-> w.url]

\* json.Unmarshal into a Weblet: a missing field keeps its zero value.
Decode(o) ==
  [name |-> o.name, url |-> o.url,
   pid |-> IF "pid" \in DOMAIN o THEN o.pid ELSE 0,
   useChrome |-> IF "use_chrome" \in DOMAIN o THEN o.use_chrome ELSE FALSE]

\* loadWeblets: the file's entries, keyed by their name field.
loadWeblets(file) ==
  [n \in { o.name : o \in file } |-> Decode(CHOOSE o \in file : o.name = n)]

\* saveWeblets: every entry of the in-memory map, written as one list.
saveWeblets(ws) == { Encode(ws[n]) : n \in DOMAIN ws }

\* WebletManager.Add on a name that is not stored.
Add(ws, name, url) ==
  [n \in DOMAIN ws \cup {name} |->
     IF n = name THEN [name |-> name, url |-> url, pid |-> 0, useChrome |-> TRUE]
     ELSE ws[n]]

\* WebletManager.SetChromeMode on a stored name.
SetChromeMode(ws, name, useChrome) == [ws EXCEPT ![name].useChrome = useChrome]

\* WebletManager.Remove on a stored name: delete(wm.weblets, name).
Remove(ws, name) == [n \in DOMAIN ws \ {name} |-> ws[n]]

\* `weblet <name> <url>` that adds an unknown name and never updates one.
OpenStore_AddOnly(file, name, url) ==
  IF name \in DOMAIN loadWeblets(file) THEN file
  ELSE saveWeblets(Add(loadWeblets(file), name, url))

\* The file after `weblet <name> <url>`: an unknown name is added; a stored
\* one with the same URL is not written; with another URL the entry's URL is
\* replaced and the map saved.
OpenStore(file, name, url) ==
  IF name \notin DOMAIN loadWeblets(file)
    THEN saveWeblets(Add(loadWeblets(file), name, url))
  ELSE IF loadWeblets(file)[name].url = url
    THEN file
  ELSE saveWeblets([loadWeblets(file) EXCEPT ![name].url = url])

\* `weblet native <name>` that switches to the native view, never back.
NativeStore_OneWay(file, name) ==
  saveWeblets(SetChromeMode(loadWeblets(file), name, FALSE))

\* The file after `weblet native <name>` on a stored name.
NativeStore(file, name) ==
  saveWeblets(SetChromeMode(loadWeblets(file), name,
                            ~loadWeblets(file)[name].useChrome))

\* The file behind the one-name models' view of the name's entry.
StoreOf(entry) ==
  IF entry = "absent" THEN {}
  ELSE saveWeblets(SetChromeMode(Add(<< >>, Name, "u1"), Name, entry = "chrome"))

\* The one-name models: the file agrees with the entry they track, and no
\* command line is recorded.
CfgQuiet ==
  /\ store = StoreOf(cfg)
  /\ argv = [l \in Launchers |-> << >>]
  /\ weblets = [l \in Launchers |-> << >>]

\* No client has connected to the socket yet; focus_requested starts at 0
\* and no timer callback is running.
IpcQuiet ==
  /\ inbox = << >>
  /\ req = [c \in Clients |-> "idle"]
  /\ focus_requested = 0
  /\ timer = "idle"
  /\ focused = 0

\* The single-name models: no second name is in play.
PathQuiet ==
  /\ nameOf = [p \in Launchers |-> Name]
  /\ disk = << >>
  /\ socks = << >>
  /\ fpc = [p \in Launchers |-> "idle"]

\* ------------------------------------------------------------ initial

Init ==
  /\ pc = [l \in Launchers |-> "idle"]
  /\ i = [l \in Launchers |-> 0]
  /\ depth = [l \in Launchers |-> 0]
  /\ outcome = [l \in Launchers |-> "none"]
  /\ lost = [l \in Launchers |-> FALSE]
  /\ won = [l \in Launchers |-> FALSE]
  /\ raced = {}
  /\ orphan0 \in BOOLEAN
  /\ lockExists = orphan0
  /\ lockAge = 0
  /\ holders = IF orphan0 THEN {Orphan} ELSE {}
  /\ wpc = [l \in Launchers |-> "none"]
  /\ wprobe = [l \in Launchers |-> "none"]
  /\ sig = [l \in Launchers |-> "armed"]
  /\ windows = {}
  /\ created = {}
  /\ unlocked = {}
  /\ sockFile = 0
  /\ listener = {}
  /\ wmctrl = TRUE
  /\ DeskQuiet
  /\ IpcQuiet
  /\ PathQuiet
  /\ CfgQuiet

\* ------------------------------------------------- launcher (parent)

\* main: `weblet <name>` reaches wm.Run(name); the name is configured and
\* UseChrome is false, so Run goes on to the native path.
Invoke(l) ==
  /\ pc[l] = "idle"
  /\ pc' = [pc EXCEPT ![l] = "probe"]
  /\ raced' = IF LeaseHeldWindowless THEN raced \cup {l} ELSE raced
  /\ UNCHANGED << i, depth, outcome, lost, won, lockVars, workerVars, sockVars, envVars >>

\* The first probe with its result ignored: always on to the lock.
Probe_Blind(l) ==
  /\ pc[l] = "probe"
  /\ pc' = [pc EXCEPT ![l] = "acquire"]
  /\ UNCHANGED << i, depth, outcome, lost, won, raced, lockVars, workerVars, sockVars, envVars >>

\* Run, first probe: a window exists -> focus it, else go for the lock.
Probe(l) ==
  /\ pc[l] = "probe"
  /\ pc' = [pc EXCEPT ![l] = IF isWebletWindowOpen THEN "focus" ELSE "acquire"]
  /\ UNCHANGED << i, depth, outcome, lost, won, raced, lockVars, workerVars, sockVars, envVars >>

\* focusWindowByTitle + focusWindowByID: lists the windows again and runs
\* the activation tools; an error when no window is listed or all tools fail.
Focus(l) ==
  /\ pc[l] = "focus"
  /\ \E ok \in BOOLEAN :
       outcome' = [outcome EXCEPT ![l] =
                     IF isWebletWindowOpen /\ ok THEN "focused" ELSE "focusfail"]
  /\ pc' = [pc EXCEPT ![l] = "done"]
  /\ UNCHANGED << i, depth, lost, won, raced, lockVars, workerVars, sockVars, envVars >>

\* os.OpenFile(lockFile, O_CREATE|O_EXCL|O_WRONLY) without the O_EXCL.
Acquire_NoExcl(l) ==
  /\ pc[l] = "acquire"
  /\ lockExists' = TRUE
  /\ lockAge' = IF lockExists THEN lockAge ELSE 0
  /\ holders' = holders \cup {l}
  /\ pc' = [pc EXCEPT ![l] = "spawn"]
  /\ won' = [won EXCEPT ![l] = TRUE]
  /\ UNCHANGED << i, depth, outcome, lost, raced, workerVars, sockVars, envVars >>

\* os.OpenFile(lockFile, O_CREATE|O_EXCL|O_WRONLY, 0644): succeeds exactly
\* when no file is at the path; on failure the wait loop starts at i = 0.
Acquire(l) ==
  /\ pc[l] = "acquire"
  /\ IF lockExists
       THEN /\ pc' = [pc EXCEPT ![l] = "wait"]
            /\ i' = [i EXCEPT ![l] = 0]
            /\ lost' = [lost EXCEPT ![l] = TRUE]
            /\ won' = [won EXCEPT ![l] = FALSE]
            /\ UNCHANGED lockVars
       ELSE /\ lockExists' = TRUE
            /\ lockAge' = 0
            /\ holders' = {l}
            /\ pc' = [pc EXCEPT ![l] = "spawn"]
            /\ won' = [won EXCEPT ![l] = TRUE]
            /\ UNCHANGED << i, lost >>
  /\ UNCHANGED << depth, outcome, raced, workerVars, sockVars, envVars >>

\* The wait loop without the i++.
WaitPoll_NoIncrement(l) ==
  /\ pc[l] = "wait"
  /\ i[l] < WaitRounds
  /\ pc' = [pc EXCEPT ![l] = IF isWebletWindowOpen THEN "focus" ELSE "wait"]
  /\ UNCHANGED << i, depth, outcome, lost, won, raced, lockVars, workerVars, sockVars, envVars >>

\* The wait loop with the code after it missing: when the budget is used up
\* control falls through to the spawn.
WaitPoll_FallThrough(l) ==
  /\ pc[l] = "wait"
  /\ i[l] < WaitRounds
  /\ IF isWebletWindowOpen
       THEN /\ pc' = [pc EXCEPT ![l] = "focus"]
            /\ UNCHANGED i
       ELSE /\ i' = [i EXCEPT ![l] = i[l] + 1]
            /\ pc' = [pc EXCEPT ![l] = IF i[l] + 1 < WaitRounds THEN "wait" ELSE "spawn"]
  /\ UNCHANGED << depth, outcome, lost, won, raced, lockVars, workerVars, sockVars, envVars >>

\* One round of the wait loop: sleep 200 ms, probe; a window -> focus it;
\* after the last round fall through to the staleness check.
WaitPoll(l) ==
  /\ pc[l] = "wait"
  /\ i[l] < WaitRounds
  /\ IF isWebletWindowOpen
       THEN /\ pc' = [pc EXCEPT ![l] = "focus"]
            /\ UNCHANGED i
       ELSE /\ i' = [i EXCEPT ![l] = i[l] + 1]
            /\ pc' = [pc EXCEPT ![l] = IF i[l] + 1 < WaitRounds THEN "wait" ELSE "stat"]
  /\ UNCHANGED << depth, outcome, lost, won, raced, lockVars, workerVars, sockVars, envVars >>

\* The staleness check without the final return of the timeout error.
StatLock_FallThrough(l) ==
  /\ pc[l] = "stat"
  /\ pc' = [pc EXCEPT ![l] = IF lockExists /\ IsStale(lockAge) THEN "reclaim" ELSE "spawn"]
  /\ UNCHANGED << i, depth, outcome, lost, won, raced, lockVars, workerVars, sockVars, envVars >>

\* os.Stat(lockFile) after the loop: a marker older than the threshold is
\* stale; otherwise (younger, or no marker) the timeout error is returned.
StatLock(l) ==
  /\ pc[l] = "stat"
  /\ IF lockExists /\ IsStale(lockAge)
       THEN /\ pc' = [pc EXCEPT ![l] = "reclaim"]
            /\ UNCHANGED outcome
       ELSE /\ pc' = [pc EXCEPT ![l] = "done"]
            /\ outcome' = [outcome EXCEPT ![l] = "timeout"]
  /\ UNCHANGED << i, depth, lost, won, raced, lockVars, workerVars, sockVars, envVars >>

\* os.Remove(lockFile); return wm.Run(name): the path is cleared, whatever
\* is there by now, and Run starts again from its first probe.
Reclaim(l) ==
  /\ pc[l] = "reclaim"
  /\ RemoveLock
  /\ pc' = [pc EXCEPT ![l] = "probe"]
  /\ depth' = [depth EXCEPT ![l] = depth[l] + 1]
  /\ UNCHANGED << i, outcome, lost, won, raced, workerVars, sockVars, envVars >>

\* os.Executable and cmd.Start with WEBLET_BACKGROUND=1: on success the
\* worker exists and Run returns nil; on failure the lock is removed next.
Spawn(l) ==
  /\ pc[l] = "spawn"
  /\ \E ok \in BOOLEAN :
       IF ok
         THEN /\ wpc' = [wpc EXCEPT ![l] = "probe"]
              /\ pc' = [pc EXCEPT ![l] = "done"]
              /\ outcome' = [outcome EXCEPT ![l] = "started"]
         ELSE /\ pc' = [pc EXCEPT ![l] = "cleanup"]
              /\ UNCHANGED << wpc, outcome >>
  /\ UNCHANGED << i, depth, lost, won, raced, lockVars, wprobe, sig, windows, created,
                  unlocked, sockVars, envVars >>

\* The two start-failure returns without their os.Remove(lockFile).
SpawnCleanup_Leak(l) ==
  /\ pc[l] = "cleanup"
  /\ pc' = [pc EXCEPT ![l] = "done"]
  /\ outcome' = [outcome EXCEPT ![l] = "startfail"]
  /\ UNCHANGED << i, depth, lost, won, raced, lockVars, workerVars, sockVars, envVars >>

\* os.Remove(lockFile) on the two start-failure returns.
SpawnCleanup(l) ==
  /\ pc[l] = "cleanup"
  /\ RemoveLock
  /\ pc' = [pc EXCEPT ![l] = "done"]
  /\ outcome' = [outcome EXCEPT ![l] = "startfail"]
  /\ UNCHANGED << i, depth, lost, won, raced, workerVars, sockVars, envVars >>

\* ------------------------------------------ worker (WEBLET_BACKGROUND=1)

HandlerInstalled(w) == wpc[w] \in {"init", "run", "sockclose", "unlock"}

Alive(w) == wpc[w] \notin {"none", "exited"}

\* Run as the background process, first probe: when a window is already
\* open it returns nil before the deferred os.Remove is registered.
WProbe(w) ==
  /\ wpc[w] = "probe"
  /\ wprobe' = [wprobe EXCEPT ![w] = IF isWebletWindowOpen THEN "seen" ELSE "clear"]
  /\ wpc' = [wpc EXCEPT ![w] = IF isWebletWindowOpen THEN "exited" ELSE "recheck"]
  /\ UNCHANGED << launcherVars, lockVars, sig, windows, created, unlocked,
                  sockVars, envVars >>

\* Run without its background branch: the re-executed process goes down the
\* parent's path, to the O_EXCL create and the wait loop or the spawn.
WRecheck_AsParent(w) ==
  /\ wpc[w] = "recheck"
  /\ wprobe' = [wprobe EXCEPT ![w] = IF isWebletWindowOpen THEN "seen" ELSE "clear"]
  /\ wpc' = [wpc EXCEPT ![w] = "exited"]
  /\ pc' = [pc EXCEPT ![w] = IF lockExists THEN "wait" ELSE "spawn"]
  /\ i' = [i EXCEPT ![w] = 0]
  /\ lockExists' = TRUE
  /\ lockAge' = IF lockExists THEN lockAge ELSE 0
  /\ holders' = IF lockExists THEN holders ELSE {w}
  /\ UNCHANGED << depth, outcome, lost, won, raced, sig, windows, created, unlocked,
                  sockVars, envVars >>

\* The probe before view.RunWebview, ignoring what it found.
WRecheck_Ignored(w) ==
  /\ wpc[w] = "recheck"
  /\ wprobe' = [wprobe EXCEPT ![w] = IF isWebletWindowOpen THEN "seen" ELSE "clear"]
  /\ wpc' = [wpc EXCEPT ![w] = "enter"]
  /\ UNCHANGED << launcherVars, lockVars, sig, windows, created, unlocked,
                  sockVars, envVars >>

\* defer os.Remove(lockFile) is registered, then the second probe: a window
\* -> return nil (the deferred removal runs), else call view.RunWebview.
WRecheck(w) ==
  /\ wpc[w] = "recheck"
  /\ wprobe' = [wprobe EXCEPT ![w] = IF isWebletWindowOpen THEN "seen" ELSE "clear"]
  /\ wpc' = [wpc EXCEPT ![w] = IF isWebletWindowOpen THEN "unlock" ELSE "enter"]
  /\ UNCHANGED << launcherVars, lockVars, sig, windows, created, unlocked,
                  sockVars, envVars >>

\* RunWebview entry: UserHomeDir / MkdirAll failing, or the no_native stub,
\* end in log.Fatalf, which exits the process without running deferred calls.
WEnter(w) ==
  /\ wpc[w] = "enter"
  /\ \E fatal \in BOOLEAN :
       wpc' = [wpc EXCEPT ![w] = IF fatal THEN "exited" ELSE "dial"]
  /\ UNCHANGED << launcherVars, lockVars, wprobe, sig, windows, created,
                  unlocked, sockVars, envVars >>

\* A live listener is bound at the socket path: net.Dial succeeds.
Connectable == sockFile # 0 /\ sockFile \in listener

\* tryFocusExistingWindow never connecting.
WDial_NeverConnects(w) ==
  /\ wpc[w] = "dial"
  /\ wpc' = [wpc EXCEPT ![w] = "sockrm"]
  /\ UNCHANGED << launcherVars, lockVars, wprobe, sig, windows, created,
                  unlocked, sockVars, envVars >>

\* tryFocusExistingWindow going on to create a window after a connection.
WDial_WindowAnyway(w) ==
  /\ wpc[w] = "dial"
  /\ wpc' = [wpc EXCEPT ![w] = "sockrm"]
  /\ IF Connectable
       THEN inbox' = Append(inbox, [from |-> w, to |-> sockFile, data |-> "focus"])
       ELSE UNCHANGED inbox
  /\ UNCHANGED << launcherVars, lockVars, wprobe, sig, windows, created,
                  unlocked, sockVars, wmctrl, orphan0, deskVars, req,
                  focus_requested, timer, focused, pathVars, cfgVars >>

\* tryFocusExistingWindow: net.Dial succeeds when a live listener is bound at
\* the socket path; then conn.Write sends "focus" (its error is ignored:
\* nothing may arrive) and RunWebview returns at once. A failed Dial is no
\* error: RunWebview goes on to startFocusListener.
WDial(w) ==
  /\ wpc[w] = "dial"
  /\ wpc' = [wpc EXCEPT ![w] = IF Connectable THEN "unlock" ELSE "sockrm"]
  /\ IF Connectable
       THEN \E written \in BOOLEAN :
              inbox' = Append(inbox, [from |-> w, to |-> sockFile,
                                      data |-> IF written THEN "focus" ELSE ""])
       ELSE UNCHANGED inbox
  /\ UNCHANGED << launcherVars, lockVars, wprobe, sig, windows, created,
                  unlocked, sockVars, wmctrl, orphan0, deskVars, req,
                  focus_requested, timer, focused, pathVars, cfgVars >>

\* startFocusListener: os.Remove(socketPath).
WSockRemove(w) ==
  /\ wpc[w] = "sockrm"
  /\ sockFile' = 0
  /\ wpc' = [wpc EXCEPT ![w] = "listen"]
  /\ UNCHANGED << launcherVars, lockVars, wprobe, sig, windows, created,
                  unlocked, listener, envVars >>

\* startFocusListener: net.Listen binds the path when it is free; when it
\* is taken again the error is logged and the worker goes on unlistened.
WListen(w) ==
  /\ wpc[w] = "listen"
  /\ IF sockFile = 0
       THEN /\ sockFile' = w
            /\ listener' = listener \cup {w}
       ELSE UNCHANGED sockVars
  /\ wpc' = [wpc EXCEPT ![w] = "notify"]
  /\ UNCHANGED << launcherVars, lockVars, wprobe, sig, windows, created,
                  unlocked, envVars >>

\* signal.Notify(sigChan, os.Interrupt, syscall.SIGTERM) and the goroutine
\* that waits on sigChan.
WNotify(w) ==
  /\ wpc[w] = "notify"
  /\ wpc' = [wpc EXCEPT ![w] = "init"]
  /\ UNCHANGED << launcherVars, lockVars, wprobe, sig, windows, created,
                  unlocked, sockVars, envVars >>

\* C.weblet_init: the window is created and shown, app_running = 1.
WInit(w) ==
  /\ wpc[w] = "init"
  /\ windows' = windows \cup {w}
  /\ created' = created \cup {w}
  /\ wpc' = [wpc EXCEPT ![w] = "run"]
  /\ UNCHANGED << launcherVars, lockVars, wprobe, sig, unlocked, sockVars, envVars >>

\* The user closes the window: on_destroy clears app_running and quits
\* gtk_main, so C.weblet_run and RunWebview return.
CloseWindow(w) ==
  /\ wpc[w] = "run"
  /\ windows' = windows \ {w}
  /\ wpc' = [wpc EXCEPT ![w] = "sockclose"]
  /\ UNCHANGED << launcherVars, lockVars, wprobe, sig, created, unlocked,
                  sockVars, envVars >>

\* RunWebview's deferred listener.Close(); os.Remove(socketPath), registered
\* only when the listener started; both unlink whatever is at the path.
WSockClose(w) ==
  /\ wpc[w] = "sockclose"
  /\ IF w \in listener
       THEN /\ listener' = listener \ {w}
            /\ sockFile' = 0
       ELSE UNCHANGED sockVars
  /\ wpc' = [wpc EXCEPT ![w] = "unlock"]
  /\ UNCHANGED << launcherVars, lockVars, wprobe, sig, windows, created,
                  unlocked, envVars >>

\* Run's deferred os.Remove(lockFile), then the process exits.
WUnlock(w) ==
  /\ wpc[w] = "unlock"
  /\ RemoveLock
  /\ unlocked' = unlocked \cup {w}
  /\ wpc' = [wpc EXCEPT ![w] = "exited"]
  /\ UNCHANGED << launcherVars, wprobe, sig, windows, created, sockVars, envVars >>

\* SIGINT or SIGTERM reaches the worker. Before signal.Notify the default
\* disposition ends the process at once (no deferred call runs, its listener
\* dies with it); afterwards the signal is queued for the goroutine.
Signal(w) ==
  /\ Alive(w)
  /\ IF HandlerInstalled(w)
       THEN /\ sig[w] = "armed"
            /\ sig' = [sig EXCEPT ![w] = "pending"]
            /\ UNCHANGED << wpc, listener >>
       ELSE /\ wpc' = [wpc EXCEPT ![w] = "exited"]
            /\ listener' = listener \ {w}
            /\ sig' = [sig EXCEPT ![w] = "killed"]
  /\ UNCHANGED << launcherVars, lockVars, wprobe, windows, created, unlocked,
                  sockFile, envVars >>

\* The goroutine receives from sigChan and calls C.weblet_quit, which
\* destroys the window only if app_running is set; the goroutine then ends.
SigHandle(w) ==
  /\ Alive(w)
  /\ sig[w] = "pending"
  /\ sig' = [sig EXCEPT ![w] = "spent"]
  /\ IF wpc[w] = "run"
       THEN /\ windows' = windows \ {w}
            /\ wpc' = [wpc EXCEPT ![w] = "sockclose"]
       ELSE UNCHANGED << wpc, windows >>
  /\ UNCHANGED << launcherVars, lockVars, wprobe, created, unlocked, sockVars, envVars >>

\* ------------------------------------------------------------- time

\* TickSeconds pass: the marker's age grows.
Tick ==
  /\ lockExists
  /\ lockAge < AgeCap
  /\ lockAge' = lockAge + 1
  /\ UNCHANGED << launcherVars, lockExists, holders, workerVars, sockVars, envVars >>

\* ------------------------------------- main, mode branch and focusing

MaxArgs == 4          \* len(os.Args) of an invocation ranges over 1 .. MaxArgs

\* Launcher l's invocation returns with the given result.
Return(l, result) ==
  /\ pc' = [pc EXCEPT ![l] = "done"]
  /\ outcome' = [outcome EXCEPT ![l] = result]

\* main, default case, up to Run's mode branch: fewer than 2 or more than 3
\* arguments end in the usage text; `weblet <name> <url>` adds an unknown
\* name (Add sets UseChrome) before running; Run fails on a name that is
\* not configured and branches on UseChrome otherwise.
MainRun(l) ==
  /\ pc[l] = "idle"
  /\ \E argc \in 1 .. MaxArgs, added \in BOOLEAN :
       IF argc < 2 \/ argc > 3
         THEN Return(l, "usage") /\ UNCHANGED cfg
       ELSE IF argc = 3 /\ cfg = "absent" /\ ~added
         THEN Return(l, "addfail") /\ UNCHANGED cfg
       ELSE /\ cfg' = IF argc = 3 /\ cfg = "absent" THEN "chrome" ELSE cfg
            /\ IF cfg' = "absent"
                 THEN Return(l, "notfound")
                 ELSE /\ pc' = [pc EXCEPT ![l] = IF cfg' = "chrome" THEN "chrome" ELSE "first"]
                      /\ UNCHANGED outcome
  /\ store' = StoreOf(cfg')
  /\ UNCHANGED << i, depth, lost, won, raced, lockVars, workerVars, sockVars,
                  ipcVars, pathVars, argv, weblets,
                  wmctrl, orphan0, wins, chromeProcs, path, seen, picked, tried >>

\* Run, first probe against the listed windows: a match -> focusWindowByTitle,
\* else on to the lock file.
RunProbe(l) ==
  /\ pc[l] = "first"
  /\ seen' = [seen EXCEPT ![l] = @ \cup {IF WindowListed(wins) THEN "window" ELSE "nowindow"}]
  /\ IF WindowListed(wins)
       THEN /\ path' = [path EXCEPT ![l] = "native"]
            /\ pc' = [pc EXCEPT ![l] = "bytitle"]
       ELSE /\ pc' = [pc EXCEPT ![l] = "acquire"]
            /\ UNCHANGED path
  /\ UNCHANGED << i, depth, outcome, lost, won, raced, lockVars, workerVars, sockVars, extVars,
                  wmctrl, orphan0, wins, cfg, chromeProcs, picked, tried >>

\* runWithChrome: isChromeProcessRunning(userDataDir) -> focus by any method,
\* else on to the window fallbacks.
RunWithChrome(l) ==
  /\ pc[l] = "chrome"
  /\ IF chromeProcs > 0
       THEN /\ path' = [path EXCEPT ![l] = "chromeproc"]
            /\ pc' = [pc EXCEPT ![l] = "bychrome"]
       ELSE /\ pc' = [pc EXCEPT ![l] = "fallback"]
            /\ UNCHANGED path
  /\ UNCHANGED << i, depth, outcome, lost, won, raced, lockVars, workerVars, sockVars, extVars,
                  wmctrl, orphan0, wins, cfg, chromeProcs, seen, picked, tried >>

\* The window fallbacks with a probe that takes the window it found off the
\* listing.
ChromeFallback_Consuming(l) ==
  /\ pc[l] = "fallback"
  /\ IF WindowListed(wins)
       THEN /\ seen' = [seen EXCEPT ![l] = @ \cup {"window"}]
            /\ path' = [path EXCEPT ![l] = "chromeclass"]
            /\ pc' = [pc EXCEPT ![l] = "bytitle"]
            /\ UNCHANGED wins
       ELSE /\ seen' = [seen EXCEPT ![l] = @ \cup
                          {"nowindow", IF ChromeWindowListed(wins) THEN "chromewindow"
                                                                   ELSE "nochromewindow"}]
            /\ IF ChromeWindowListed(wins)
                 THEN /\ path' = [path EXCEPT ![l] = "chrometitle"]
                      /\ pc' = [pc EXCEPT ![l] = "bychrome"]
                      /\ wins' = SubSeq(wins, 1, SelectChrome(wins) - 1)
                 ELSE /\ pc' = [pc EXCEPT ![l] = "start"]
                      /\ UNCHANGED << path, wins >>
  /\ UNCHANGED << i, depth, outcome, lost, won, raced, lockVars, workerVars, sockVars, extVars,
                  wmctrl, orphan0, cfg, chromeProcs, picked, tried >>

\* runWithChrome, the two window fallbacks: isWebletWindowOpen ->
\* focusWindowByTitle; isChromeWebletWindowOpen -> focusChromeWindow; else
\* go on to start Chrome.
ChromeFallback(l) ==
  /\ pc[l] = "fallback"
  /\ IF WindowListed(wins)
       THEN /\ seen' = [seen EXCEPT ![l] = @ \cup {"window"}]
            /\ path' = [path EXCEPT ![l] = "chromeclass"]
            /\ pc' = [pc EXCEPT ![l] = "bytitle"]
       ELSE /\ seen' = [seen EXCEPT ![l] = @ \cup
                          {"nowindow", IF ChromeWindowListed(wins) THEN "chromewindow"
                                                                   ELSE "nochromewindow"}]
            /\ IF ChromeWindowListed(wins)
                 THEN /\ path' = [path EXCEPT ![l] = "chrometitle"]
                      /\ pc' = [pc EXCEPT ![l] = "bychrome"]
                 ELSE /\ pc' = [pc EXCEPT ![l] = "start"]
                      /\ UNCHANGED path
  /\ UNCHANGED << i, depth, outcome, lost, won, raced, lockVars, workerVars, sockVars, extVars,
                  wmctrl, orphan0, wins, cfg, chromeProcs, picked, tried >>

\* focusWindowByTitle up to its call of focusWindowByID: an error when the
\* listing fails or no line matches.
FocusWindowByTitle(l) ==
  /\ pc[l] = "bytitle"
  /\ IF wmctrl /\ SelectByTitle(wins) # 0
       THEN /\ picked' = [picked EXCEPT ![l] = SelectByTitle(wins)]
            /\ pc' = [pc EXCEPT ![l] = "byid"]
            /\ UNCHANGED outcome
       ELSE Return(l, "focusfail") /\ UNCHANGED picked
  /\ UNCHANGED << i, depth, lost, won, raced, lockVars, workerVars, sockVars, extVars,
                  wmctrl, orphan0, wins, cfg, chromeProcs, path, seen, tried >>

\* focusChromeWindow up to its call of focusWindowByID. Its error is
\* returned by Run on the title fallback; under focusChromeWindowAnyMethod
\* it sends control on to gdbus.
FocusChromeWindow(l) ==
  /\ pc[l] = "bychrome"
  /\ IF wmctrl /\ SelectChrome(wins) # 0
       THEN /\ picked' = [picked EXCEPT ![l] = SelectChrome(wins)]
            /\ pc' = [pc EXCEPT ![l] = "byid"]
            /\ UNCHANGED outcome
       ELSE /\ IF path[l] = "chromeproc"
                 THEN pc' = [pc EXCEPT ![l] = "gdbus"] /\ UNCHANGED outcome
                 ELSE Return(l, "focusfail")
            /\ UNCHANGED picked
  /\ UNCHANGED << i, depth, lost, won, raced, lockVars, workerVars, sockVars, extVars,
                  wmctrl, orphan0, wins, cfg, chromeProcs, path, seen, tried >>

\* focusWindowByID, first method: wmctrl -i -a <id>; nil at once when it
\* succeeds. It cannot succeed without wmctrl.
FocusByID_Wmctrl(l) ==
  /\ pc[l] = "byid"
  /\ tried[l] = << >>
  /\ tried' = [tried EXCEPT ![l] = << "wmctrl" >>]
  /\ \E ok \in (IF wmctrl THEN BOOLEAN ELSE {FALSE}) :
       IF ok THEN Return(l, "focused") ELSE UNCHANGED << pc, outcome >>
  /\ UNCHANGED << i, depth, lost, won, raced, lockVars, workerVars, sockVars, extVars,
                  wmctrl, orphan0, wins, cfg, chromeProcs, path, seen, picked >>

\* focusWindowByID with xdotool run whether or not wmctrl -i -a was tried.
FocusByID_XdotoolFirst(l) ==
  /\ pc[l] = "byid"
  /\ tried[l] \in { << >>, << "wmctrl" >> }
  /\ tried' = [tried EXCEPT ![l] = Append(@, "xdotool")]
  /\ \E ok \in BOOLEAN :
       IF ok THEN Return(l, "focused")
       ELSE IF path[l] = "chromeproc"
         THEN pc' = [pc EXCEPT ![l] = "gdbus"] /\ UNCHANGED outcome
         ELSE Return(l, "focusfail")
  /\ UNCHANGED << i, depth, lost, won, raced, lockVars, workerVars, sockVars, extVars,
                  wmctrl, orphan0, wins, cfg, chromeProcs, path, seen, picked >>

\* focusWindowByID, second method: xdotool windowactivate <id>; when it
\* fails too the error goes to the caller, which returns it, or, in
\* focusChromeWindowAnyMethod, goes on to gdbus.
FocusByID_Xdotool(l) ==
  /\ pc[l] = "byid"
  /\ tried[l] = << "wmctrl" >>
  /\ tried' = [tried EXCEPT ![l] = Append(@, "xdotool")]
  /\ \E ok \in BOOLEAN :
       IF ok THEN Return(l, "focused")
       ELSE IF path[l] = "chromeproc"
         THEN pc' = [pc EXCEPT ![l] = "gdbus"] /\ UNCHANGED outcome
         ELSE Return(l, "focusfail")
  /\ UNCHANGED << i, depth, lost, won, raced, lockVars, workerVars, sockVars, extVars,
                  wmctrl, orphan0, wins, cfg, chromeProcs, path, seen, picked >>

\* focusChromeWindowAnyMethod, the gdbus call of GNOME Shell; when it fails
\* runWithChrome prints the note and returns nil all the same.
FocusGdbus(l) ==
  /\ pc[l] = "gdbus"
  /\ tried' = [tried EXCEPT ![l] = Append(@, "gdbus")]
  /\ \E ok \in BOOLEAN : Return(l, IF ok THEN "focused" ELSE "softwarn")
  /\ UNCHANGED << i, depth, lost, won, raced, lockVars, workerVars, sockVars, extVars,
                  wmctrl, orphan0, wins, cfg, chromeProcs, path, seen, picked >>

\* runWithChrome, the browser lookup and cmd.Start.
StartChrome(l) ==
  /\ pc[l] = "start"
  /\ \E result \in {"started", "nobrowser", "startfail"} :
       /\ Return(l, result)
       /\ chromeProcs' = IF result = "started" THEN chromeProcs + 1 ELSE chromeProcs
  /\ UNCHANGED << i, depth, lost, won, raced, lockVars, workerVars, sockVars, extVars,
                  wmctrl, orphan0, wins, cfg, path, seen, picked, tried >>

\* A Chrome process of the weblet ends (its window is closed).
ChromeExit ==
  /\ chromeProcs > 0
  /\ chromeProcs' = chromeProcs - 1
  /\ UNCHANGED << launcherVars, lockVars, workerVars, sockVars, extVars,
                  wmctrl, orphan0, wins, cfg, path, seen, picked, tried >>

\* main: os.Exit(1) after the usage text and after any error of Add or Run;
\* 0 when Run returned nil.
ExitCode(l) == IF outcome[l] \in {"focused", "started", "softwarn"} THEN 0 ELSE 1

\* Invocations of one name on a desktop with other programs' windows: any
\* listing, any configuration entry, wmctrl installed or not, a Chrome
\* process of the weblet running or not.
InitDesktop ==
  /\ pc = [l \in Launchers |-> "idle"]
  /\ i = [l \in Launchers |-> 0]
  /\ depth = [l \in Launchers |-> 0]
  /\ outcome = [l \in Launchers |-> "none"]
  /\ lost = [l \in Launchers |-> FALSE]
  /\ won = [l \in Launchers |-> FALSE]
  /\ raced = {}
  /\ orphan0 = FALSE
  /\ lockExists = FALSE
  /\ lockAge = 0
  /\ holders = {}
  /\ wpc = [l \in Launchers |-> "none"]
  /\ wprobe = [l \in Launchers |-> "none"]
  /\ sig = [l \in Launchers |-> "armed"]
  /\ windows = {}
  /\ created = {}
  /\ unlocked = {}
  /\ sockFile = 0
  /\ listener = {}
  /\ wmctrl \in BOOLEAN
  /\ wins \in Listings(MaxWindows)
  /\ cfg \in {"absent", "native", "chrome"}
  /\ chromeProcs \in {0, 1}
  /\ path = [l \in Launchers |-> "none"]
  /\ seen = [l \in Launchers |-> {}]
  /\ picked = [l \in Launchers |-> 0]
  /\ tried = [l \in Launchers |-> << >>]
  /\ IpcQuiet
  /\ PathQuiet
  /\ CfgQuiet

NextDesktop ==
  \/ \E l \in Launchers : MainRun(l)
  \/ \E l \in Launchers : RunProbe(l)
  \/ \E l \in Launchers : RunWithChrome(l)
  \/ \E l \in Launchers : ChromeFallback(l)
  \/ \E l \in Launchers : FocusWindowByTitle(l)
  \/ \E l \in Launchers : FocusChromeWindow(l)
  \/ \E l \in Launchers : FocusByID_Wmctrl(l)
  \/ \E l \in Launchers : FocusByID_Xdotool(l)
  \/ \E l \in Launchers : FocusGdbus(l)
  \/ \E l \in Launchers : StartChrome(l)
  \/ ChromeExit

DesktopSpec == InitDesktop /\ [][NextDesktop]_vars

\* ---------------------------------------------------- specification

Next ==
  \/ \E l \in Launchers : Invoke(l)
  \/ \E l \in Launchers : Probe(l)
  \/ \E l \in Launchers : Focus(l)
  \/ \E l \in Launchers : Acquire(l)
  \/ \E l \in Launchers : WaitPoll(l)
  \/ \E l \in Launchers : StatLock(l)
  \/ \E l \in Launchers : Reclaim(l)
  \/ \E l \in Launchers : Spawn(l)
  \/ \E l \in Launchers : SpawnCleanup(l)
  \/ \E w \in Launchers : WProbe(w)
  \/ \E w \in Launchers : WRecheck(w)
  \/ \E w \in Launchers : WEnter(w)
  \/ \E w \in Launchers : WDial(w)
  \/ \E w \in Launchers : WSockRemove(w)
  \/ \E w \in Launchers : WListen(w)
  \/ \E w \in Launchers : WNotify(w)
  \/ \E w \in Launchers : WInit(w)
  \/ \E w \in Launchers : CloseWindow(w)
  \/ \E w \in Launchers : WSockClose(w)
  \/ \E w \in Launchers : WUnlock(w)
  \/ \E w \in Launchers : Signal(w)
  \/ \E w \in Launchers : SigHandle(w)
  \/ Tick

Spec == Init /\ [][Next]_vars

\* Every launcher process keeps running until its Run returns.
LauncherStep(l) ==
  \/ Probe(l)
  \/ Focus(l)
  \/ Acquire(l)
  \/ WaitPoll(l)
  \/ StatLock(l)
  \/ Reclaim(l)
  \/ Spawn(l)
  \/ SpawnCleanup(l)

FairSpec == Spec /\ \A l \in Launchers : WF_vars(LauncherStep(l))

\* Every worker process keeps running: each step of Run and RunWebview that
\* is up to the worker alone is eventually taken, and so is the signal
\* goroutine's; closing the window is up to the user.
WorkerStep(w) ==
  \/ WProbe(w)
  \/ WRecheck(w)
  \/ WEnter(w)
  \/ WDial(w)
  \/ WSockRemove(w)
  \/ WListen(w)
  \/ WNotify(w)
  \/ WInit(w)
  \/ WSockClose(w)
  \/ WUnlock(w)
  \/ SigHandle(w)

WorkerFairSpec == Spec /\ \A w \in Launchers : WF_vars(WorkerStep(w))

\* One invocation, by launcher 1, finding a marker older than the threshold
\* that no live process owns; other invocations come only one at a time,
\* after it has returned.
InitSolo ==
  /\ pc = [l \in Launchers |-> IF l = 1 THEN "probe" ELSE "idle"]
  /\ i = [l \in Launchers |-> 0]
  /\ depth = [l \in Launchers |-> 0]
  /\ outcome = [l \in Launchers |-> "none"]
  /\ lost = [l \in Launchers |-> FALSE]
  /\ won = [l \in Launchers |-> FALSE]
  /\ raced = {}
  /\ orphan0 = TRUE
  /\ lockExists = TRUE
  /\ lockAge = AgeCap
  /\ holders = {Orphan}
  /\ wpc = [l \in Launchers |-> "none"]
  /\ wprobe = [l \in Launchers |-> "none"]
  /\ sig = [l \in Launchers |-> "armed"]
  /\ windows = {}
  /\ created = {}
  /\ unlocked = {}
  /\ sockFile = 0
  /\ listener = {}
  /\ wmctrl = TRUE
  /\ DeskQuiet
  /\ IpcQuiet
  /\ PathQuiet
  /\ CfgQuiet

\* A further invocation made while no other launcher is running.
InvokeAlone(l) ==
  /\ \A m \in Launchers \ {l} : pc[m] \in {"idle", "done"}
  /\ Invoke(l)

NextSolo ==
  \/ \E l \in Launchers : InvokeAlone(l)
  \/ \E l \in Launchers : Probe(l)
  \/ \E l \in Launchers : Focus(l)
  \/ \E l \in Launchers : Acquire(l)
  \/ \E l \in Launchers : WaitPoll(l)
  \/ \E l \in Launchers : StatLock(l)
  \/ \E l \in Launchers : Reclaim(l)
  \/ \E l \in Launchers : Spawn(l)
  \/ \E l \in Launchers : SpawnCleanup(l)
  \/ \E w \in Launchers : WProbe(w)
  \/ \E w \in Launchers : WRecheck(w)
  \/ \E w \in Launchers : WEnter(w)
  \/ \E w \in Launchers : WDial(w)
  \/ \E w \in Launchers : WSockRemove(w)
  \/ \E w \in Launchers : WListen(w)
  \/ \E w \in Launchers : WNotify(w)
  \/ \E w \in Launchers : WInit(w)
  \/ \E w \in Launchers : CloseWindow(w)
  \/ \E w \in Launchers : WSockClose(w)
  \/ \E w \in Launchers : WUnlock(w)
  \/ \E w \in Launchers : Signal(w)
  \/ \E w \in Launchers : SigHandle(w)
  \/ Tick

SoloSpec == InitSolo /\ [][NextSolo]_vars /\ WF_vars(LauncherStep(1))

\* An instance is up: launcher 1 has returned from a successful start, its
\* worker holds the fresh lock file, listens on the socket and shows its
\* window; the window-manager tools are installed or not.
InitRunning ==
  /\ pc = [l \in Launchers |-> IF l = 1 THEN "done" ELSE "idle"]
  /\ i = [l \in Launchers |-> 0]
  /\ depth = [l \in Launchers |-> 0]
  /\ outcome = [l \in Launchers |-> IF l = 1 THEN "started" ELSE "none"]
  /\ lost = [l \in Launchers |-> FALSE]
  /\ won = [l \in Launchers |-> l = 1]
  /\ raced = {}
  /\ orphan0 = FALSE
  /\ lockExists = TRUE
  /\ lockAge = 0
  /\ holders = {1}
  /\ wpc = [l \in Launchers |-> IF l = 1 THEN "run" ELSE "none"]
  /\ wprobe = [l \in Launchers |-> IF l = 1 THEN "clear" ELSE "none"]
  /\ sig = [l \in Launchers |-> "armed"]
  /\ windows = {1}
  /\ created = {1}
  /\ unlocked = {}
  /\ sockFile = 1
  /\ listener = {1}
  /\ wmctrl \in BOOLEAN
  /\ DeskQuiet
  /\ IpcQuiet
  /\ PathQuiet
  /\ CfgQuiet

RunningSpec == InitRunning /\ [][Next]_vars

\* ---------------------------------------------- focus requests (IPC)

\* The worker that owns the listener in the focus-request model.
Owner == 1

\* tryFocusExistingWindow of a later invocation's worker: net.Dial reaches
\* the live listener bound at the socket path, conn.Write sends "focus" (its
\* error is ignored: nothing may arrive), conn.Close.
ClientFocus(c) ==
  /\ req[c] = "idle"
  /\ Connectable /\ sockFile = Owner
  /\ \E written \in BOOLEAN :
       /\ inbox' = Append(inbox, [from |-> c, to |-> sockFile,
                                  data |-> IF written THEN "focus" ELSE ""])
       /\ req' = [req EXCEPT ![c] = IF written THEN "sent" ELSE "void"]
  /\ UNCHANGED << launcherVars, lockVars, workerVars, sockVars, wmctrl, orphan0,
                  deskVars, focus_requested, timer, focused, pathVars, cfgVars >>

\* The accept loop performing the focus action itself.
AcceptFocus_Direct ==
  /\ Owner \in listener /\ Alive(Owner)
  /\ inbox # << >>
  /\ inbox' = Tail(inbox)
  /\ IF Head(inbox).data = "focus"
       THEN /\ focused' = focused + 1
            /\ req' = [req EXCEPT ![Head(inbox).from] = "served"]
       ELSE UNCHANGED << focused, req >>
  /\ UNCHANGED << launcherVars, lockVars, workerVars, sockVars, wmctrl, orphan0,
                  deskVars, focus_requested, timer, pathVars, cfgVars >>

\* The accept loop reading the message and dropping it.
AcceptFocus_Drop ==
  /\ Owner \in listener /\ Alive(Owner)
  /\ inbox # << >>
  /\ inbox' = Tail(inbox)
  /\ UNCHANGED << launcherVars, lockVars, workerVars, sockVars, wmctrl, orphan0,
                  deskVars, req, focus_requested, timer, focused, pathVars, cfgVars >>

\* One round of startFocusListener's goroutine: Accept the oldest waiting
\* connection, Read up to 16 bytes, and when they are exactly "focus" call
\* C.weblet_request_focus (focus_requested = 1); conn.Close.
AcceptFocus ==
  /\ Owner \in listener /\ Alive(Owner)
  /\ inbox # << >>
  /\ inbox' = Tail(inbox)
  /\ IF Head(inbox).data = "focus"
       THEN /\ focus_requested' = 1
            /\ req' = [req EXCEPT ![Head(inbox).from] = "flagged"]
       ELSE UNCHANGED << focus_requested, req >>
  /\ UNCHANGED << launcherVars, lockVars, workerVars, sockVars, wmctrl, orphan0,
                  deskVars, timer, focused, pathVars, cfgVars >>

\* on_focus_check, fired by the 100 ms timer weblet_run installs, while
\* gtk_main runs: `if (focus_requested)`. The flag is a plain int shared with
\* the accept goroutine, so the callback's read, its store and the call are
\* separate steps that the goroutine's store may fall between.
TimerRead ==
  /\ wpc[Owner] = "run"
  /\ timer = "idle"
  /\ focus_requested # 0
  /\ timer' = "clear"
  /\ UNCHANGED << launcherVars, lockVars, workerVars, sockVars, wmctrl, orphan0,
                  deskVars, inbox, req, focus_requested, focused, pathVars, cfgVars >>

\* on_focus_check: `focus_requested = 0`.
TimerClear ==
  /\ wpc[Owner] = "run"
  /\ timer = "clear"
  /\ focus_requested' = 0
  /\ timer' = "focus"
  /\ UNCHANGED << launcherVars, lockVars, workerVars, sockVars, wmctrl, orphan0,
                  deskVars, inbox, req, focused, pathVars, cfgVars >>

\* on_focus_check: weblet_focus(), which presents the window when
\* app_running is set and the window exists; the callback returns TRUE.
\* Every request flagged so far has now been followed by a focus action.
TimerFocus ==
  /\ wpc[Owner] = "run"
  /\ timer = "focus"
  /\ timer' = "idle"
  /\ IF Owner \in windows
       THEN /\ focused' = focused + 1
            /\ req' = [c \in Clients |-> IF req[c] = "flagged" THEN "served" ELSE req[c]]
       ELSE UNCHANGED << focused, req >>
  /\ UNCHANGED << launcherVars, lockVars, workerVars, sockVars, wmctrl, orphan0,
                  deskVars, inbox, focus_requested, pathVars, cfgVars >>

\* The owner has just bound its listener (startFocusListener returned) and
\* holds the lock file; its window is still to be created.
InitIpc ==
  /\ pc = [l \in Launchers |-> IF l = Owner THEN "done" ELSE "idle"]
  /\ i = [l \in Launchers |-> 0]
  /\ depth = [l \in Launchers |-> 0]
  /\ outcome = [l \in Launchers |-> IF l = Owner THEN "started" ELSE "none"]
  /\ lost = [l \in Launchers |-> FALSE]
  /\ won = [l \in Launchers |-> l = Owner]
  /\ raced = {}
  /\ orphan0 = FALSE
  /\ lockExists = TRUE
  /\ lockAge = 0
  /\ holders = {Owner}
  /\ wpc = [l \in Launchers |-> IF l = Owner THEN "notify" ELSE "none"]
  /\ wprobe = [l \in Launchers |-> IF l = Owner THEN "clear" ELSE "none"]
  /\ sig = [l \in Launchers |-> "armed"]
  /\ windows = {}
  /\ created = {}
  /\ unlocked = {}
  /\ sockFile = Owner
  /\ listener = {Owner}
  /\ wmctrl \in BOOLEAN
  /\ DeskQuiet
  /\ IpcQuiet
  /\ PathQuiet
  /\ CfgQuiet

NextIpc ==
  \/ \E c \in Clients : ClientFocus(c)
  \/ AcceptFocus
  \/ TimerRead
  \/ TimerClear
  \/ TimerFocus
  \/ WNotify(Owner)
  \/ WInit(Owner)
  \/ CloseWindow(Owner)
  \/ WSockClose(Owner)
  \/ WUnlock(Owner)
  \/ Signal(Owner)
  \/ SigHandle(Owner)

\* The accept goroutine is scheduled and the GTK main loop keeps firing its
\* timer while the window is up.
IpcSpec ==
  /\ InitIpc
  /\ [][NextIpc]_vars
  /\ WF_vars(AcceptFocus)
  /\ WF_vars(TimerRead) /\ WF_vars(TimerClear) /\ WF_vars(TimerFocus)

\* ------------------------------------------- two names (file paths)

\* Names are strings of characters; a multi-letter token stands for the
\* letters it spells (none of them a separator).
NameSamples ==
  { << "a" >>, << "b" >>, << ".", "/", "a" >>, << "b", "/", ".", ".", "/", "a" >> }

LockDir == << << "locks" >> >>
SockDir == << << "sockets" >> >>

\* The elements of a path, split at the separators, read from position k on
\* with `cur` the element being read.
RECURSIVE SplitAt(_, _, _)
SplitAt(str, cur, k) ==
  IF k > Len(str) THEN << cur >>
  ELSE IF str[k] = "/" THEN << cur >> \o SplitAt(str, << >>, k + 1)
  ELSE SplitAt(str, Append(cur, str[k]), k + 1)

\* filepath.Clean, element by element: empty and "." elements are dropped,
\* ".." drops the element before it.
RECURSIVE CleanFrom(_, _)
CleanFrom(done, rest) ==
  IF rest = << >> THEN done
  ELSE IF Head(rest) = << >> \/ Head(rest) = << "." >>
    THEN CleanFrom(done, Tail(rest))
  ELSE IF Head(rest) = << ".", "." >>
    THEN CleanFrom(IF done = << >> THEN done ELSE SubSeq(done, 1, Len(done) - 1),
                   Tail(rest))
  ELSE CleanFrom(Append(done, Head(rest)), Tail(rest))

\* filepath.Join(dir, file), the directory given by its elements.
Join(dir, file) == CleanFrom(<< >>, dir \o SplitAt(file, << >>, 1))

\* lockFile := filepath.Join(lockDir, name+".lock")
LockPath(name) == Join(LockDir, name \o << ".lock" >>)

\* socketPath := filepath.Join(sockDir, title+".sock")
SockPath(title) == Join(SockDir, title \o << ".sock" >>)

\* A function with one more pair, or one pair less.
Put(f, k, v) == [x \in DOMAIN f \cup {k} |-> IF x = k THEN v ELSE f[x]]
Drop(f, k) == [x \in DOMAIN f \ {k} |-> f[x]]

\* Run(name), parent: os.OpenFile(lockFile, O_CREATE|O_EXCL): created -> the
\* worker is spawned; the create failed -> the wait loop.
PAcquire(p) ==
  /\ fpc[p] = "idle"
  /\ IF LockPath(nameOf[p]) \in DOMAIN disk
       THEN /\ fpc' = [fpc EXCEPT ![p] = "wait"]
            /\ UNCHANGED disk
       ELSE /\ disk' = Put(disk, LockPath(nameOf[p]), [by |-> p, old |-> FALSE])
            /\ fpc' = [fpc EXCEPT ![p] = "worker"]
  /\ UNCHANGED << launcherVars, lockVars, workerVars, sockVars, wmctrl, orphan0,
                  deskVars, ipcVars, nameOf, socks, cfgVars >>

\* Run(name), parent, after the wait loop found no window: os.Stat(lockFile);
\* older than the threshold -> os.Remove(lockFile) and Run again; else the
\* timeout error.
PWaitEnd(p) ==
  /\ fpc[p] = "wait"
  /\ IF LockPath(nameOf[p]) \in DOMAIN disk /\ disk[LockPath(nameOf[p])].old
       THEN /\ disk' = Drop(disk, LockPath(nameOf[p]))
            /\ fpc' = [fpc EXCEPT ![p] = "idle"]
       ELSE /\ fpc' = [fpc EXCEPT ![p] = "timeout"]
            /\ UNCHANGED disk
  /\ UNCHANGED << launcherVars, lockVars, workerVars, sockVars, wmctrl, orphan0,
                  deskVars, ipcVars, nameOf, socks, cfgVars >>

\* The worker in RunWebview: tryFocusExistingWindow(socketPath) connects to
\* the listener bound at the path and the worker returns (Run's deferred
\* os.Remove(lockFile) runs); else startFocusListener unlinks the path and
\* binds it, and the window is created.
PListen(p) ==
  /\ fpc[p] = "worker"
  /\ IF SockPath(nameOf[p]) \in DOMAIN socks
       THEN /\ fpc' = [fpc EXCEPT ![p] = "attached"]
            /\ disk' = Drop(disk, LockPath(nameOf[p]))
            /\ UNCHANGED socks
       ELSE /\ socks' = Put(socks, SockPath(nameOf[p]), p)
            /\ fpc' = [fpc EXCEPT ![p] = "window"]
            /\ UNCHANGED disk
  /\ UNCHANGED << launcherVars, lockVars, workerVars, sockVars, wmctrl, orphan0,
                  deskVars, ipcVars, nameOf, cfgVars >>

\* The window is closed: listener.Close(), os.Remove(socketPath), then
\* Run's deferred os.Remove(lockFile); each unlinks whatever is at the path.
PClose(p) ==
  /\ fpc[p] = "window"
  /\ socks' = Drop(socks, SockPath(nameOf[p]))
  /\ disk' = Drop(disk, LockPath(nameOf[p]))
  /\ fpc' = [fpc EXCEPT ![p] = "closed"]
  /\ UNCHANGED << launcherVars, lockVars, workerVars, sockVars, wmctrl, orphan0,
                  deskVars, ipcVars, nameOf, cfgVars >>

\* More than StaleSeconds pass since a lock file was created.
PAge ==
  /\ \E f \in DOMAIN disk :
       /\ ~disk[f].old
       /\ disk' = [disk EXCEPT ![f].old = TRUE]
  /\ UNCHANGED << launcherVars, lockVars, workerVars, sockVars, wmctrl, orphan0,
                  deskVars, ipcVars, nameOf, socks, fpc, cfgVars >>

\* Two invocations with two different configured names, both native; the
\* lock and socket directories are empty and no window of either name is
\* listed by the window manager.
InitPath ==
  /\ pc = [l \in Launchers |-> "idle"]
  /\ i = [l \in Launchers |-> 0]
  /\ depth = [l \in Launchers |-> 0]
  /\ outcome = [l \in Launchers |-> "none"]
  /\ lost = [l \in Launchers |-> FALSE]
  /\ won = [l \in Launchers |-> FALSE]
  /\ raced = {}
  /\ orphan0 = FALSE
  /\ lockExists = FALSE
  /\ lockAge = 0
  /\ holders = {}
  /\ wpc = [l \in Launchers |-> "none"]
  /\ wprobe = [l \in Launchers |-> "none"]
  /\ sig = [l \in Launchers |-> "armed"]
  /\ windows = {}
  /\ created = {}
  /\ unlocked = {}
  /\ sockFile = 0
  /\ listener = {}
  /\ wmctrl = FALSE
  /\ DeskQuiet
  /\ IpcQuiet
  /\ CfgQuiet
  /\ nameOf \in { f \in [Launchers -> NameSamples] :
                    \A p, q \in Launchers : p # q => f[p] # f[q] }
  /\ disk = << >>
  /\ socks = << >>
  /\ fpc = [p \in Launchers |-> "idle"]

NextPath ==
  \/ \E p \in Launchers : PAcquire(p)
  \/ \E p \in Launchers : PWaitEnd(p)
  \/ \E p \in Launchers : PListen(p)
  \/ \E p \in Launchers : PClose(p)
  \/ PAge

PathSpec == InitPath /\ [][NextPath]_vars

\* ------------------------------------------ configuration commands

\* The stored entry of the name is there and has UseChrome unset.
IsNative(file, name) ==
  name \in DOMAIN loadWeblets(file) /\ ~loadWeblets(file)[name].useChrome

\* `weblet add <name> <url>`: NewWebletManager loads the file, Add stores the
\* new entry and saves. (On a stored name Add returns an error and the file
\* is not written.)
CmdAdd(n, u) ==
  /\ n \notin DOMAIN loadWeblets(store)
  /\ store' = saveWeblets(Add(loadWeblets(store), n, u))
  /\ UNCHANGED << launcherVars, lockVars, workerVars, sockVars, wmctrl, orphan0,
                  deskVars, ipcVars, pathVars, argv, weblets >>

\* `weblet native <name>` on a stored name: SetChromeMode(name, !UseChrome).
CmdNative(n) ==
  /\ n \in DOMAIN loadWeblets(store)
  /\ store' = NativeStore(store, n)
  /\ UNCHANGED << launcherVars, lockVars, workerVars, sockVars, wmctrl, orphan0,
                  deskVars, ipcVars, pathVars, argv, weblets >>

\* Remove's `if weblet.PID > 0 && wm.isProcessRunning(weblet.PID)` followed
\* by stopProcess: the process with the stored pid is killed (worker w runs
\* as process w); no deferred call of it runs, its window and listener die
\* with it.
StopIfRunning(pid) ==
  IF pid \in Launchers /\ Alive(pid)
    THEN /\ wpc' = [wpc EXCEPT ![pid] = "exited"]
         /\ sig' = [sig EXCEPT ![pid] = "killed"]
         /\ windows' = windows \ {pid}
         /\ listener' = listener \ {pid}
         /\ UNCHANGED << wprobe, created, unlocked, sockFile >>
    ELSE UNCHANGED << workerVars, sockVars >>

\* `weblet remove <name>` on a stored name: the process of the stored pid is
\* stopped, the entry deleted and the map saved.
CmdRemove(n) ==
  /\ n \in DOMAIN loadWeblets(store)
  /\ StopIfRunning(loadWeblets(store)[n].pid)
  /\ store' = saveWeblets(Remove(loadWeblets(store), n))
  /\ UNCHANGED << launcherVars, lockVars, wmctrl, orphan0,
                  deskVars, ipcVars, pathVars, argv, weblets >>

\* The command line of launcher l: `weblet`, `weblet n`, `weblet n u`, or
\* one argument more.
ArgsOf(argc, u) ==
  IF argc = 1 THEN << >>
  ELSE IF argc = 2 THEN << Name >>
  ELSE IF argc = 3 THEN << Name, u >>
  ELSE << Name, u, u >>

\* main's default case for the name of the lease model: with a URL the file
\* is brought up to date first (a failed write ends the command), then
\* Run(name): not stored -> error; UseChrome -> runWithChrome; else the
\* native path, whose steps are those of the launcher above.
CmdOpen(l) ==
  /\ pc[l] = "idle"
  /\ \E argc \in 1 .. MaxArgs, u \in Urls, saved \in BOOLEAN :
       /\ argv' = [argv EXCEPT ![l] = ArgsOf(argc, u)]
       /\ IF argc < 2 \/ argc > 3
            THEN Return(l, "usage") /\ UNCHANGED << store, raced >>
          ELSE IF argc = 3 /\ OpenStore(store, Name, u) # store /\ ~saved
            THEN Return(l, "savefail") /\ UNCHANGED << store, raced >>
          ELSE /\ store' = IF argc = 3 THEN OpenStore(store, Name, u) ELSE store
               /\ IF Name \notin DOMAIN loadWeblets(store')
                    THEN Return(l, "notfound") /\ UNCHANGED raced
                  ELSE IF ~IsNative(store', Name)
                    THEN Return(l, "browser") /\ UNCHANGED raced
                  ELSE /\ pc' = [pc EXCEPT ![l] = "probe"]
                       /\ raced' = IF LeaseHeldWindowless THEN raced \cup {l} ELSE raced
                       /\ UNCHANGED outcome
  /\ UNCHANGED << i, depth, lost, won, lockVars, workerVars, sockVars, wmctrl,
                  orphan0, deskVars, ipcVars, pathVars, weblets >>

\* A worker that writes the file back when it starts.
WProbeNative_Saving(w) ==
  /\ wpc[w] = "probe"
  /\ IsNative(store, Name)
  /\ wprobe' = [wprobe EXCEPT ![w] = IF isWebletWindowOpen THEN "seen" ELSE "clear"]
  /\ wpc' = [wpc EXCEPT ![w] = IF isWebletWindowOpen THEN "exited" ELSE "recheck"]
  /\ store' = saveWeblets([loadWeblets(store) EXCEPT ![Name].pid = 1])
  /\ UNCHANGED << launcherVars, lockVars, sig, windows, created, unlocked,
                  sockVars, wmctrl, orphan0, deskVars, ipcVars, pathVars, argv, weblets >>

\* The worker's main and Run up to the first probe, the entry it loaded
\* being native.
WProbeNative(w) ==
  /\ IsNative(store, Name)
  /\ WProbe(w)

\* The worker's Run on an entry that was removed or switched to Chrome after
\* the parent spawned it: the not-found error, or runWithChrome; both return
\* before the deferred os.Remove(lockFile) is registered.
WNotNative(w) ==
  /\ wpc[w] = "probe"
  /\ ~IsNative(store, Name)
  /\ wpc' = [wpc EXCEPT ![w] = "exited"]
  /\ UNCHANGED << launcherVars, lockVars, wprobe, sig, windows, created, unlocked,
                  sockVars, envVars >>

\* A fresh installation: no weblets.json, no lock file, no worker.
InitConfig ==
  /\ pc = [l \in Launchers |-> "idle"]
  /\ i = [l \in Launchers |-> 0]
  /\ depth = [l \in Launchers |-> 0]
  /\ outcome = [l \in Launchers |-> "none"]
  /\ lost = [l \in Launchers |-> FALSE]
  /\ won = [l \in Launchers |-> FALSE]
  /\ raced = {}
  /\ orphan0 = FALSE
  /\ lockExists = FALSE
  /\ lockAge = 0
  /\ holders = {}
  /\ wpc = [l \in Launchers |-> "none"]
  /\ wprobe = [l \in Launchers |-> "none"]
  /\ sig = [l \in Launchers |-> "armed"]
  /\ windows = {}
  /\ created = {}
  /\ unlocked = {}
  /\ sockFile = 0
  /\ listener = {}
  /\ wmctrl = TRUE
  /\ wins = << >>
  /\ cfg = "absent"
  /\ chromeProcs = 0
  /\ path = [l \in Launchers |-> "none"]
  /\ seen = [l \in Launchers |-> {}]
  /\ picked = [l \in Launchers |-> 0]
  /\ tried = [l \in Launchers |-> << >>]
  /\ IpcQuiet
  /\ PathQuiet
  /\ CfgQuiet

\* The commands alone, on both names; a native Run is followed no further
\* than its entry.
NextStore ==
  \/ \E n \in CfgNames, u \in Urls : CmdAdd(n, u)
  \/ \E n \in CfgNames : CmdNative(n)
  \/ \E n \in CfgNames : CmdRemove(n)
  \/ \E l \in Launchers : CmdOpen(l)

StoreSpec == InitConfig /\ [][NextStore]_vars

\* The commands on the lease model's name, the launchers and their workers.
NextConfig ==
  \/ \E u \in Urls : CmdAdd(Name, u)
  \/ CmdNative(Name)
  \/ CmdRemove(Name)
  \/ \E l \in Launchers : CmdOpen(l)
  \/ \E l \in Launchers : Probe(l)
  \/ \E l \in Launchers : Focus(l)
  \/ \E l \in Launchers : Acquire(l)
  \/ \E l \in Launchers : WaitPoll(l)
  \/ \E l \in Launchers : StatLock(l)
  \/ \E l \in Launchers : Spawn(l)
  \/ \E l \in Launchers : SpawnCleanup(l)
  \/ \E w \in Launchers : WProbeNative(w)
  \/ \E w \in Launchers : WNotNative(w)
  \/ \E w \in Launchers : WRecheck(w)
  \/ \E w \in Launchers : WEnter(w)
  \/ \E w \in Launchers : WDial(w)
  \/ \E w \in Launchers : WSockRemove(w)
  \/ \E w \in Launchers : WListen(w)
  \/ \E w \in Launchers : WNotify(w)
  \/ \E w \in Launchers : WInit(w)
  \/ \E w \in Launchers : CloseWindow(w)
  \/ \E w \in Launchers : WSockClose(w)
  \/ \E w \in Launchers : WUnlock(w)
  \/ \E w \in Launchers : Signal(w)
  \/ \E w \in Launchers : SigHandle(w)

ConfigSpec == InitConfig /\ [][NextConfig]_vars

\* ------------------------------------------------------------ properties

TypeOK ==
  /\ pc \in [Launchers -> {"idle", "probe", "focus", "acquire", "wait", "stat",
                           "reclaim", "spawn", "cleanup", "done", "first", "chrome",
                           "fallback", "bytitle", "bychrome", "byid", "gdbus", "start",
                           "loaded"}]
  /\ i \in [Launchers -> 0 .. WaitRounds]
  /\ depth \in [Launchers -> 0 .. NumLaunchers]
  /\ lockAge \in 0 .. AgeCap

\* C1: with no window and no lock file to begin with, concurrent launches of
\* one name never lead to two windows of that name being open at once.
C1_SingleWindow == ~orphan0 => Cardinality(windows) <= 1

\* C2: at most one process holds the launch lease at any time: of the
\* launchers whose exclusive create succeeded, at most one has its marker
\* still in place.
C2_OneHolder == Cardinality(holders) <= 1

\* C2 witness: a launcher holds the lease it created after reclaiming a
\* stale one, while another launcher has lost the race.
C2_Witness ==
  \E l \in Launchers, m \in Launchers :
    l # m /\ holders = {l} /\ depth[l] >= 1 /\ lost[m]

\* C3 (as stated): a launcher whose exclusive create failed never spawns a
\* worker later in the same invocation.
C3_LoserNeverSpawns == \A l \in Launchers : lost[l] => wpc[l] = "none"

\* C3 (amended): a launcher has spawned a worker only if its latest exclusive
\* create succeeded, and one whose create had failed before has spawned only
\* after it removed a stale marker and re-entered Run.
C3_SpawnsOnlyAfterOwnCreate ==
  \A l \in Launchers :
    (wpc[l] # "none" \/ pc[l] \in {"spawn", "cleanup"}) =>
      /\ won[l]
      /\ lost[l] => depth[l] >= 1

\* C3 witness: a launcher that lost the race, reclaimed the stale marker, won
\* the next exclusive create and spawned a worker.
C3_Witness ==
  \E l \in Launchers : lost[l] /\ won[l] /\ depth[l] = 1 /\ wpc[l] # "none"

\* C4: whenever a background worker has exited, it has removed the lock file.
C4_ExitUnlocks == \A w \in Launchers : wpc[w] = "exited" => w \in unlocked

\* C5: a worker whose latest probe saw a window never enters RunWebview and
\* never creates a window; it only releases the lock and exits.
C5_NoWindowAfterSeen ==
  \A w \in Launchers :
    wprobe[w] = "seen" => w \notin created /\ wpc[w] \in {"unlock", "exited"}

\* C5 witness: a worker's re-check found the window another worker had
\* created after its first probe, and it is about to return.
C5_Witness ==
  \E w \in Launchers :
    wprobe[w] = "seen" /\ wpc[w] = "unlock" /\ windows # {} /\ w \notin created

\* C6 (as stated): the single invocation that found the stale marker always
\* ends with a worker spawned and success returned.
C6_SoloAlwaysStarts == pc[1] = "done" => outcome[1] = "started"

\* C6 (amended): the single invocation eventually returns, having removed the
\* stale marker once and won a fresh exclusive create; it returns success
\* with a worker spawned, or, when the worker could not be started, the start
\* error; it never returns the timeout error.
C6_StaleRecovered ==
  /\ <>(pc[1] = "done")
  /\ [](pc[1] = "done" =>
          /\ depth[1] = 1
          /\ won[1]
          /\ outcome[1] \in {"started", "startfail"}
          /\ outcome[1] = "started" <=> wpc[1] # "none")

\* C6 witness: the invocation has returned success, its worker is running
\* under the fresh marker.
C6_Witness ==
  /\ pc[1] = "done" /\ outcome[1] = "started" /\ depth[1] = 1
  /\ wpc[1] = "run" /\ holders = {1}

\* C7: one invocation takes the stale-lease branch at most once.
C7_ReclaimOnce == \A l \in Launchers : depth[l] <= 1

C9_YoungLockTimesOut ==
  [][\A l \in Launchers :
       (pc[l] = "stat" /\ pc'[l] # "stat" /\ lockExists
          /\ lockAge * TickSeconds <= StaleSeconds) =>
         /\ pc'[l] = "done"
         /\ outcome'[l] = "timeout"
         /\ lockVars' = lockVars
         /\ wpc' = wpc]_vars

\* C9 witness: an invocation returned the timeout error and the marker, whose
\* age is exactly the threshold, is still there.
C9_Witness ==
  \E l \in Launchers :
    /\ outcome[l] = "timeout" /\ depth[l] = 0 /\ wpc[l] = "none"
    /\ lockExists /\ lockAge * TickSeconds = StaleSeconds

\* C10 (as stated): an invocation that started while a worker held the lease
\* without a window yet never creates or deletes a lock file and never spawns;
\* it returns from a focus attempt or with the timeout error.
C10_SecondOnlyWaits ==
  \A l \in raced :
    /\ ~won[l]
    /\ depth[l] = 0
    /\ wpc[l] = "none"
    /\ pc[l] = "done" => outcome[l] \in {"focused", "focusfail", "timeout"}

\* C10 (amended): such an invocation, once its exclusive create has failed
\* and as long as it has not found the marker older than the threshold, has
\* created no lock file, deleted none and spawned nothing, and it returns
\* only from a focus attempt or with the timeout error.
C10_SecondWaitsWhileLeaseHeld ==
  \A l \in raced :
    (lost[l] /\ depth[l] = 0) =>
      /\ ~won[l]
      /\ wpc[l] = "none"
      /\ pc[l] \in {"wait", "focus", "stat", "reclaim", "done"}
      /\ pc[l] = "done" => outcome[l] \in {"focused", "focusfail", "timeout"}

\* C10 witness: the second invocation saw the first one's window in a poll
\* and focused it.
C10_Witness ==
  \E l \in raced :
    lost[l] /\ depth[l] = 0 /\ i[l] > 0 /\ outcome[l] = "focused"

\* C11: an invocation whose first probe finds a window goes on to the focus
\* attempt and returns from it; neither step creates or removes a lock file
\* or spawns a process, and the invocation does nothing after it.
C11_FocusOnly ==
  [][\A l \in Launchers :
       /\ (pc[l] = "probe" /\ depth[l] = 0 /\ isWebletWindowOpen /\ pc'[l] # "probe") =>
            /\ pc'[l] = "focus"
            /\ lockVars' = lockVars
            /\ wpc' = wpc
       /\ (pc[l] = "focus" /\ depth[l] = 0 /\ ~lost[l] /\ pc'[l] # "focus") =>
            /\ pc'[l] = "done"
            /\ outcome'[l] \in {"focused", "focusfail"}
            /\ lockVars' = lockVars
            /\ wpc' = wpc
       /\ pc[l] = "done" => pc'[l] = "done"]_vars

\* C11 witness: an invocation returned from focusing the open window of a
\* running worker without ever having tried the exclusive create.
C11_Witness ==
  \E l \in Launchers :
    /\ pc[l] = "done" /\ outcome[l] = "focused"
    /\ depth[l] = 0 /\ ~lost[l] /\ ~won[l] /\ wpc[l] = "none"
    /\ windows # {} /\ l \notin holders

\* C12: an invocation returns the start error only with the lock file
\* removed, and without a worker.
C12_StartFailureUnlocks ==
  [][\A l \in Launchers :
       (outcome[l] # "startfail" /\ outcome'[l] = "startfail") =>
         /\ pc[l] = "cleanup"
         /\ ~lockExists'
         /\ holders' = {}
         /\ wpc'[l] = "none"]_vars

\* C12 witness: a launcher won the exclusive create, failed to start its
\* worker and returned the error; no lock file is left.
C12_Witness ==
  \E l \in Launchers :
    pc[l] = "done" /\ outcome[l] = "startfail" /\ won[l] /\ ~lockExists /\ wpc[l] = "none"

\* C13: an invocation that found an instance running (its window listed, or
\* its Chrome process alive) and then saw every activation mechanism it ran
\* fail exits with code 0, on the native path and on the Chrome paths.
C13_SoftWarning ==
  \A l \in Launchers :
    (pc[l] = "done" /\ path[l] # "none" /\ tried[l] # << >> /\ outcome[l] # "focused") =>
      ExitCode(l) = 0

\* C14: a returned invocation exits with 0 exactly when it attached to a
\* running instance or started one; an unknown name, a malformed argument
\* count and a lease timeout exit nonzero, and an unknown name has probed
\* nothing, created no lock file and spawned nothing.
C14_ExitCodes ==
  \A l \in Launchers :
    pc[l] = "done" =>
      /\ ExitCode(l) = 0 <=> (path[l] # "none" \/ outcome[l] = "started")
      /\ outcome[l] \in {"notfound", "usage", "timeout"} => ExitCode(l) # 0
      /\ outcome[l] = "notfound" =>
           seen[l] = {} /\ tried[l] = << >> /\ ~won[l] /\ wpc[l] = "none"

\* The mechanisms launcher l has run include gdbus.
RanGdbus(l) == \E k \in 1 .. Len(tried[l]) : tried[l][k] = "gdbus"

\* C15 (as stated): xdotool is run only after wmctrl -i -a failed, gdbus only
\* after both id-based tools failed, and nothing is run after a success.
C15_GdbusAfterBothFailed ==
  \A l \in Launchers :
    tried[l] \in { << >>, << "wmctrl" >>, << "wmctrl", "xdotool" >>,
                   << "wmctrl", "xdotool", "gdbus" >> }

\* C15 (amended): the mechanisms are run in the order wmctrl -i -a, xdotool,
\* gdbus, each only after every mechanism run before it failed; gdbus is run
\* only on the Chrome-process path after focusChromeWindow returned an error,
\* which is after both id-based tools failed or, when no window was selected,
\* after neither was run; an invocation that returned from a success, or
\* returned at all, runs nothing more; a focus failure is returned only with
\* every mechanism that was run failed.
C15_InOrder ==
  /\ [](\A l \in Launchers :
          /\ tried[l] \in { << >>, << "wmctrl" >>, << "wmctrl", "xdotool" >>,
                            << "wmctrl", "xdotool", "gdbus" >>, << "gdbus" >> }
          /\ RanGdbus(l) => path[l] = "chromeproc"
          /\ tried[l] = << "gdbus" >> => picked[l] = 0
          /\ (tried[l] # << >> /\ tried[l] # << "gdbus" >>) => picked[l] # 0
          /\ (pc[l] = "done" /\ outcome[l] = "focusfail" /\ picked[l] # 0) =>
               tried[l] = << "wmctrl", "xdotool" >>
          /\ (pc[l] = "done" /\ outcome[l] = "softwarn") => RanGdbus(l))
  /\ [][\A l \in Launchers :
          /\ pc[l] = "done" => tried'[l] = tried[l]
          /\ tried'[l] # tried[l] =>
               /\ Len(tried'[l]) = Len(tried[l]) + 1
               /\ pc'[l] = "done" => outcome'[l] \in {"focused", "focusfail", "softwarn"}]_vars

\* C15 witness: on the Chrome-process path both id-based tools failed on the
\* selected window and gdbus then succeeded.
C15_Witness ==
  \E l \in Launchers :
    /\ pc[l] = "done" /\ outcome[l] = "focused" /\ path[l] = "chromeproc"
    /\ picked[l] # 0 /\ tried[l] = << "wmctrl", "xdotool", "gdbus" >>

\* The listing holds a window whose class is exactly the class token and
\* another whose class does not match while its title contains the name.
ExactAndTitleOnly ==
  \E a \in 1 .. Len(wins), b \in 1 .. Len(wins) :
    /\ a # b
    /\ ClassKind(wins[a].class) = "exact"
    /\ ClassKind(wins[b].class) = "none"
    /\ Contains(ToLower(wins[b].title), ToLower(Name))

\* C16: with a class-exact window and a window that only has the name in its
\* title listed, in either order, every focus path selects the class-exact one.
C16_ClassExactSelected ==
  \A l \in Launchers :
    (ExactAndTitleOnly /\ picked[l] # 0) => ClassKind(wins[picked[l]].class) = "exact"

\* Strength of a class match: exact before prefix before suffix before
\* substring.
KindRank(kind) ==
  IF kind = "exact" THEN 1
  ELSE IF kind = "prefix" THEN 2
  ELSE IF kind = "suffix" THEN 3
  ELSE IF kind = "substring" THEN 4
  ELSE 5

\* C17: when listed windows match the class token, the window selected by
\* class has the strongest kind of match among them, whatever the order.
C17_StrongestClassSelected ==
  \A l \in Launchers :
    (picked[l] # 0 /\ path[l] \in {"native", "chromeclass"}
       /\ FirstMatch(ClassHits(wins)) # 0) =>
      \A k \in 1 .. Len(wins) :
        KindRank(ClassKind(wins[picked[l]].class)) <= KindRank(ClassKind(wins[k].class))

C19_RunningReported ==
  \A l \in Launchers :
    (~wmctrl /\ l # 1 /\ pc[l] = "done" /\ wpc[1] = "run") =>
      outcome[l] \notin {"timeout", "focusfail"}

\* C20: for a Chrome-mode weblet, however its invocations interleave, at most
\* one Chrome process of that name is running.
C20_OneChrome == cfg = "chrome" => chromeProcs <= 1

\* C21: once SIGINT or SIGTERM has been delivered to a worker, at whatever
\* point of its life, the worker eventually has no window, no listener and
\* no socket endpoint left, and has removed the lock file.
C21_SignalShutsDown ==
  \A w \in Launchers :
    (sig[w] # "armed") ~>
      (w \notin windows /\ w \notin listener /\ sockFile # w /\ w \in unlocked)

\* C22: while the worker holds its listener and its window is up, the
\* connection of every client that delivered "focus" is eventually followed
\* by a weblet_focus in that worker, unless the window is closed first.
C22_FocusDelivered ==
  \A c \in Clients :
    (req[c] = "sent" /\ wpc[Owner] = "run" /\ Owner \in listener)
      ~> (req[c] = "served" \/ wpc[Owner] # "run")

\* C22 witness: a delivered request has been followed by a focus action
\* while the window is still up.
C22_Witness ==
  /\ \E c \in Clients : req[c] = "served"
  /\ wpc[Owner] = "run" /\ Owner \in windows /\ focused > 0

\* C23: the accept loop only sets focus_requested and never focuses; the
\* focus action is taken only by the timer callback, once per callback and
\* only after it has cleared the flag; there are never more focus actions
\* than requests; and a flagged request not yet followed by a focus action
\* always has the flag set or a focus action of the callback still to come.
C23_FlagThenTimerFocus ==
  /\ [][/\ (focused' # focused =>
              timer = "focus" /\ timer' = "idle" /\ focused' = focused + 1)
        /\ (timer' = "focus" /\ timer # "focus" => focus_requested' = 0)
        /\ (Len(inbox') < Len(inbox) =>
              /\ focused' = focused
              /\ (Head(inbox).data = "focus" => focus_requested' = 1))]_vars
  /\ [](focused <= Cardinality({c \in Clients : req[c] \in {"flagged", "served"}}))
  /\ []((\E c \in Clients : req[c] = "flagged" /\ wpc[Owner] = "run") =>
          focus_requested = 1 \/ timer = "focus")

\* C23 witness: two requests that arrived between two timer ticks were
\* followed by a single focus action.
C23_Witness ==
  /\ Cardinality({c \in Clients : req[c] = "served"}) >= 2
  /\ focused = 1

\* C24: a worker creates a window only after its connection attempt to the
\* socket endpoint: when the connection succeeds it sends its message and
\* returns without ever creating a window; when it fails the worker goes on,
\* without an error, to set up its own listener and window.
C24_DialBeforeWindow ==
  /\ [][\A w \in Launchers :
          /\ (wpc[w] = "dial" /\ wpc'[w] \notin {"dial", "exited"}) =>
               IF Connectable
                 THEN /\ wpc'[w] = "unlock"
                      /\ Len(inbox') = Len(inbox) + 1
                      /\ inbox'[Len(inbox')].from = w
                      /\ inbox'[Len(inbox')].to = sockFile
                      /\ windows' = windows /\ created' = created
                 ELSE /\ wpc'[w] = "sockrm"
                      /\ inbox' = inbox
          /\ (wpc'[w] = "sockrm" /\ wpc[w] # "sockrm") => wpc[w] = "dial"
          /\ (w \in created' /\ w \notin created) => wpc[w] = "init"
          /\ wpc[w] = "unlock" => wpc'[w] \in {"unlock", "exited"}]_vars
  /\ [](\A w \in Launchers :
          wpc[w] \in {"none", "probe", "recheck", "enter", "dial", "sockrm",
                      "listen", "notify", "init"} => w \notin created)
  /\ [](\A w \in Launchers :
          (\E k \in 1 .. Len(inbox) : inbox[k].from = w) =>
             w \notin created /\ wpc[w] \in {"unlock", "exited"})

\* C24 witness: a worker connected to the running instance's socket, sent
\* its message and has exited without a window, while another worker whose
\* connection attempt failed has its window up.
C24_Witness ==
  \E w, v \in Launchers :
    /\ \E k \in 1 .. Len(inbox) : inbox[k].from = w /\ inbox[k].to = v
    /\ wpc[w] = "exited" /\ w \notin created
    /\ wpc[v] = "run" /\ v \in windows

\* C25: the socket endpoint exists only while some worker of the name is
\* alive and holds a listener: no state has the endpoint on disk while no
\* worker is alive.
C25_SocketOnlyWhileAlive ==
  sockFile # 0 => \E w \in Launchers : Alive(w) /\ w \in listener

\* C26: lock files and socket endpoints are keyed by name: of two launches
\* with different names neither ever waits or times out on the other's lock
\* file, removes it, or connects to the other's socket; a worker's own lock
\* file and socket stay in place until it removes them itself.
C26_KeyedByName ==
  \A p \in Launchers :
    /\ fpc[p] \notin {"wait", "timeout", "attached"}
    /\ fpc[p] \in {"worker", "window"} =>
         /\ LockPath(nameOf[p]) \in DOMAIN disk
         /\ disk[LockPath(nameOf[p])].by = p
    /\ fpc[p] = "window" =>
         /\ SockPath(nameOf[p]) \in DOMAIN socks
         /\ socks[SockPath(nameOf[p])] = p

\* C27: no step of a background worker writes the configuration store: every
\* step that moves a worker, its signal goroutine, its window, its listener
\* or its socket leaves weblets.json as it was.
C27_WorkerLeavesStore ==
  [][(workerVars' # workerVars \/ sockVars' # sockVars) => store' = store]_vars

\* C27 witness: a worker has run its whole life (window created, closed,
\* lock file removed) beside a store that holds the weblet, and another was
\* started on an entry switched back to Chrome.
C27_Witness ==
  /\ \E w \in Launchers : wpc[w] = "exited" /\ w \in created /\ w \in unlocked
  /\ \E w \in Launchers : wpc[w] = "exited" /\ w \notin created /\ wprobe[w] = "none"
  /\ Name \in DOMAIN loadWeblets(store)

\* C28: `weblet <name> <url>` adds an unknown name with the URL (in Chrome
\* mode), leaves the file untouched when the name is stored with that URL,
\* and replaces only the URL otherwise; other entries are never changed;
\* doing it twice gives the same file as doing it once; and the command then
\* runs the weblet, never ending in not-found or usage, and failing before
\* Run only when the file could not be written.
C28_OpenAddsOrUpdates ==
  /\ [](\A n \in CfgNames, u \in Urls :
          LET ws == loadWeblets(store)
              ws1 == loadWeblets(OpenStore(store, n, u))
          IN  /\ n \in DOMAIN ws1 /\ ws1[n].url = u
              /\ DOMAIN ws1 = DOMAIN ws \cup {n}
              /\ \A m \in DOMAIN ws \ {n} : ws1[m] = ws[m]
              /\ n \notin DOMAIN ws =>
                   ws1[n] = [name |-> n, url |-> u, pid |-> 0, useChrome |-> TRUE]
              /\ (n \in DOMAIN ws /\ ws[n].url = u) => OpenStore(store, n, u) = store
              /\ (n \in DOMAIN ws /\ ws[n].url # u) => ws1[n] = [ws[n] EXCEPT !.url = u]
              /\ OpenStore(OpenStore(store, n, u), n, u) = OpenStore(store, n, u))
  /\ [][\A l \in Launchers :
          (pc[l] = "idle" /\ pc'[l] # "idle" /\ Len(argv'[l]) = 2) =>
             /\ outcome'[l] \notin {"notfound", "usage"}
             /\ outcome'[l] = "savefail" =>
                  store' = store /\ OpenStore(store, argv'[l][1], argv'[l][2]) # store
             /\ outcome'[l] # "savefail" =>
                  /\ store' = OpenStore(store, argv'[l][1], argv'[l][2])
                  /\ pc'[l] = "probe" \/ outcome'[l] = "browser"]_vars

\* C28 witness: the name was opened with one URL and then with another, and
\* the stored entry now carries the later URL; the other name's entry is
\* still there.
C28_Witness ==
  /\ argv[1] = << Name, "u1" >> /\ argv[2] = << Name, "u2" >>
  /\ outcome[1] = "browser" /\ outcome[2] = "browser"
  /\ Name \in DOMAIN loadWeblets(store) /\ loadWeblets(store)[Name].url = "u2"
  /\ Other \in DOMAIN loadWeblets(store)

\* C29: an added weblet is stored in Chrome mode; `weblet native <name>`
\* inverts the mode of that weblet and changes nothing else in the file;
\* applied twice it gives back the file it started from; and a weblet's mode
\* is never changed by anything but that command on its own name.
C29_NativeToggles ==
  /\ [](\A n \in CfgNames :
          LET ws == loadWeblets(store)
          IN  /\ n \in DOMAIN ws =>
                   /\ loadWeblets(NativeStore(store, n)) =
                        [ws EXCEPT ![n].useChrome = ~ws[n].useChrome]
                   /\ NativeStore(NativeStore(store, n), n) = store
              /\ n \notin DOMAIN ws =>
                   \A u \in Urls : loadWeblets(saveWeblets(Add(ws, n, u)))[n].useChrome)
  /\ [][\A n \in CfgNames :
          /\ (/\ n \in DOMAIN loadWeblets(store) /\ n \in DOMAIN loadWeblets(store')
              /\ loadWeblets(store')[n].useChrome # loadWeblets(store)[n].useChrome)
               => store' = NativeStore(store, n)
          /\ (n \notin DOMAIN loadWeblets(store) /\ n \in DOMAIN loadWeblets(store'))
               => loadWeblets(store')[n].useChrome]_vars

\* C29 witness: one weblet has been switched to the native view while the
\* other, added before, is still in Chrome mode.
C29_Witness ==
  /\ IsNative(store, Name)
  /\ Other \in DOMAIN loadWeblets(store) /\ loadWeblets(store)[Other].useChrome

C31_RemovedByOwnSide ==
  [][(lockExists /\ ~lockExists') =>
       \/ \E l \in Launchers : pc[l] = "reclaim" /\ pc'[l] = "probe"
       \/ \E l \in Launchers : pc[l] = "cleanup" /\ pc'[l] = "done" /\ holders = {l}
       \/ \E w \in Launchers : w \notin unlocked /\ w \in unlocked' /\ holders = {w}]_vars

\* C32: the marker a stale reclaim deletes is the one whose age it inspected:
\* a reclaim never removes a lock file that is younger than the staleness
\* threshold, such as the one another waiting launcher created after its own
\* reclaim of the same abandoned lease.
C32_ReclaimDeletesInspected ==
  [][\A l \in Launchers :
       (pc[l] = "reclaim" /\ pc'[l] = "probe" /\ lockExists) => IsStale(lockAge)]_vars

\* C33: Run returns the timeout error only while a lock file exists that is
\* younger than the staleness threshold; never when the file is already gone.
C33_TimeoutOnlyYoungLock ==
  [][\A l \in Launchers :
       (outcome[l] # "timeout" /\ outcome'[l] = "timeout") =>
         (lockExists /\ ~IsStale(lockAge))]_vars

\* C34: a worker that created a window holds the lease while the window
\* lives: a stale reclaim never deletes the lock file of a worker whose
\* window is still open.
C34_LeaseWhileWindowLives ==
  [][\A l \in Launchers :
       (pc[l] = "reclaim" /\ pc'[l] = "probe" /\ lockExists) =>
         holders \cap windows = {}]_vars

\* C35: while a worker's listener is alive its socket file stays at the
\* path: no step of another worker removes or replaces it.
C35_ForeignSocketKept ==
  [][\A w \in Launchers :
       (w \in listener /\ sockFile = w /\ w \in listener') => sockFile' = w]_vars

\* ------------------------------------------- windows of other weblets

\* Names of other configured weblets: the name is a proper prefix of the
\* first, a proper suffix of the second, and unrelated to the third.
OtherNames == { << "n", "x" >>, << "x", "n" >>, << "x" >> }

\* The window a native worker of `name` shows: weblet_init sets the title to
\* the name, on_realize sets res_name and res_class to "weblet-<name>", and
\* wmctrl -lx lists the class as "res_name.res_class".
WindowOf(name) ==
  [class |-> << "w" >> \o name \o << "." >> \o << "w" >> \o name, title |-> name]

OtherWindows == { WindowOf(b) : b \in OtherNames }

\* Every listing of at most n windows, all of other weblets.
OtherListings(n) == UNION { [1 .. k -> OtherWindows] : k \in 0 .. n }

\* The desktop shows only windows of other weblets; nothing of the name runs.
InitOthers ==
  /\ pc = [l \in Launchers |-> "idle"]
  /\ i = [l \in Launchers |-> 0]
  /\ depth = [l \in Launchers |-> 0]
  /\ outcome = [l \in Launchers |-> "none"]
  /\ lost = [l \in Launchers |-> FALSE]
  /\ won = [l \in Launchers |-> FALSE]
  /\ raced = {}
  /\ orphan0 = FALSE
  /\ lockExists = FALSE
  /\ lockAge = 0
  /\ holders = {}
  /\ wpc = [l \in Launchers |-> "none"]
  /\ wprobe = [l \in Launchers |-> "none"]
  /\ sig = [l \in Launchers |-> "armed"]
  /\ windows = {}
  /\ created = {}
  /\ unlocked = {}
  /\ sockFile = 0
  /\ listener = {}
  /\ wmctrl \in BOOLEAN
  /\ wins \in OtherListings(MaxWindows)
  /\ cfg \in {"absent", "native", "chrome"}
  /\ chromeProcs \in {0, 1}
  /\ path = [l \in Launchers |-> "none"]
  /\ seen = [l \in Launchers |-> {}]
  /\ picked = [l \in Launchers |-> 0]
  /\ tried = [l \in Launchers |-> << >>]
  /\ IpcQuiet
  /\ PathQuiet
  /\ CfgQuiet

OthersSpec == InitOthers /\ [][NextDesktop]_vars

\* C36: a window of another weblet is never taken for a window of the name:
\* over a listing of other weblets' windows Run's probe isWebletWindowOpen
\* finds no window, and Run never goes on to focusWindowByTitle.
C36_OtherWindowNotMine ==
  \A l \in Launchers : "window" \notin seen[l] /\ pc[l] # "bytitle"

\* C37: the launch is two-phase. A step of a background worker never creates
\* a lock file, never moves a launcher (no wait loop, no stale reclaim, no
\* spawn) and never starts a further worker; a step of a launcher never
\* touches what view.RunWebview owns (window, socket file, listener).
C37_TwoPhase ==
  [][/\ \A w \in Launchers :
          (wpc[w] # "none" /\ wpc'[w] # wpc[w]) =>
            /\ lockExists' => lockExists
            /\ pc' = pc /\ i' = i /\ depth' = depth
            /\ \A x \in Launchers : wpc[x] = "none" => wpc'[x] = "none"
     /\ pc' # pc =>
          windows' = windows /\ created' = created /\ sockFile' = sockFile
            /\ listener' = listener]_vars

\* C37 witness: a spawned worker went through view.RunWebview to its window
\* while its launcher had long returned and the lock file was still the one
\* the launcher created.
C37_Witness ==
  \E w \in Launchers :
    /\ wpc[w] = "run" /\ w \in windows
    /\ pc[w] = "done" /\ outcome[w] = "started"
    /\ lockExists /\ holders = {w}

\* C38: a successful `weblet remove` of the name while its instance shows a
\* window stops that instance: once the entry is deleted no worker process of the name is alive and no
\* window of it is left.
C38_RemoveStopsInstance ==
  [][(/\ \E w \in Launchers : wpc[w] = "run" /\ w \in windows
      /\ Name \in DOMAIN loadWeblets(store)
      /\ Name \notin DOMAIN loadWeblets(store')) =>
       /\ \A w \in Launchers : wpc'[w] \in {"none", "exited"}
       /\ windows' = {}]_vars

\* ------------------------------- concurrent commands on weblets.json

\* The command lines of the store model: `weblet add <name> <url>` and
\* `weblet native <name>`.
Cmds ==
  { << << "add" >>, n, u >> : n \in CfgNames, u \in Urls } \cup
  { << << "native" >>, n >> : n \in CfgNames }

\* main up to the command switch: NewWebletManager reads weblets.json into
\* the process's own wm.weblets.
PStart(p) ==
  /\ pc[p] = "idle"
  /\ \E c \in Cmds : argv' = [argv EXCEPT ![p] = c]
  /\ weblets' = [weblets EXCEPT ![p] = loadWeblets(store)]
  /\ pc' = [pc EXCEPT ![p] = "loaded"]
  /\ UNCHANGED << i, depth, outcome, lost, won, raced, lockVars, workerVars, sockVars,
                  wmctrl, orphan0, deskVars, ipcVars, pathVars, store >>

\* case "add": Add on the map the process loaded; a name it holds is an
\* error, else the entry is put into the map and saveWeblets writes the
\* whole map over the file (the write may fail).
PAdd(p) ==
  /\ pc[p] = "loaded"
  /\ argv[p][1] = << "add" >>
  /\ IF argv[p][2] \in DOMAIN weblets[p]
       THEN Return(p, "exists") /\ UNCHANGED << store, weblets >>
       ELSE /\ weblets' = [weblets EXCEPT ![p] = Add(weblets[p], argv[p][2], argv[p][3])]
            /\ \E saved \in BOOLEAN :
                 IF saved
                   THEN store' = saveWeblets(weblets'[p]) /\ Return(p, "added")
                   ELSE UNCHANGED store /\ Return(p, "savefail")
  /\ UNCHANGED << i, depth, lost, won, raced, lockVars, workerVars, sockVars,
                  wmctrl, orphan0, deskVars, ipcVars, pathVars, argv >>

\* case "native": the name is looked up in the map the process loaded;
\* SetChromeMode flips the entry and saveWeblets writes the whole map.
PNative(p) ==
  /\ pc[p] = "loaded"
  /\ argv[p][1] = << "native" >>
  /\ IF argv[p][2] \notin DOMAIN weblets[p]
       THEN Return(p, "notfound") /\ UNCHANGED << store, weblets >>
       ELSE /\ weblets' = [weblets EXCEPT ![p] =
                             SetChromeMode(weblets[p], argv[p][2],
                                           ~weblets[p][argv[p][2]].useChrome)]
            /\ \E saved \in BOOLEAN :
                 IF saved
                   THEN store' = saveWeblets(weblets'[p]) /\ Return(p, "toggled")
                   ELSE UNCHANGED store /\ Return(p, "savefail")
  /\ UNCHANGED << i, depth, lost, won, raced, lockVars, workerVars, sockVars,
                  wmctrl, orphan0, deskVars, ipcVars, pathVars, argv >>

\* Command processes that run side by side on one weblets.json.
NextSync ==
  \/ \E p \in Launchers : PStart(p)
  \/ \E p \in Launchers : PAdd(p)
  \/ \E p \in Launchers : PNative(p)

SyncSpec == InitConfig /\ [][NextSync]_vars

\* C39: no update is lost: when two processes have added weblets of different
\* names and both reported success, the file holds both entries.
C39_NoLostUpdate ==
  \A p, q \in Launchers :
    (/\ p # q
     /\ pc[p] = "done" /\ outcome[p] = "added"
     /\ pc[q] = "done" /\ outcome[q] = "added"
     /\ argv[p][2] # argv[q][2]) =>
      { argv[p][2], argv[q][2] } \subseteq DOMAIN loadWeblets(store)

====
